---------------------------- MODULE Spec2Model ----------------------------
(***************************************************************************)
(* Blocktopus: deterministic publish/subscribe sequencing.                 *)
(*                                                                         *)
(* The sequencing engine (sequencer, server-side session, client library)  *)
(* is declared in target_api.h and described in the README, but has no     *)
(* implementation among the sources; its operations are modelled here from *)
(* the design document (sections 3, 4.2-4.4 and 7).  Program constants     *)
(* (kFirstSeqNum, ClientId) come from algorithm/data_structures.h.         *)
(***************************************************************************)
EXTENDS Integers, Sequences, FiniteSets, TLC

(***************************************************************************)
(* Bounds of the model.                                                    *)
(***************************************************************************)
\* Connections the listener hands to the sequencer.
MaxConn == 2
\* Largest sequence number a client frame mentions.
MaxSeq == 2
\* Inbound events (connections, frames, closures) handled in one run.
MaxSteps == 5
\* Largest number of clients in a scripted scenario.
MaxScripted == 3

(***************************************************************************)
(* Program constants.                                                      *)
(***************************************************************************)
\* static constexpr SeqNum kFirstSeqNum = 0;
kFirstSeqNum == 0

\* The first ClientId handed out (scenario S1: HelloAck{id=1}).
FirstClientId == 1

SeqNums == kFirstSeqNum .. MaxSeq
Channels == {"x"}
\* A selector is a channel name or the wildcard "all".
AllChannels == "*"
Selectors == Channels \cup {AllChannels}
\* A second channel, named by the scripted clients only.
ScriptChannels == {"y"}
\* Every selector a session can hold a subscription for.
AllSelectors == Selectors \cup ScriptChannels
Payloads == {"p"}

\* "No value" for the optional pending_grant and for an absent ClientId.
NoSeq == kFirstSeqNum - 1
NoId == FirstClientId - 1
\* G when there is no live session: no frontier constrains anything.
Infinity == MaxSeq + 100

Min(a, b) == IF a <= b THEN a ELSE b
Max(a, b) == IF a >= b THEN a ELSE b

VARIABLES
  sessions,   \* sequence of session records, in connection order
  next_id,    \* the next ClientId the sequencer allocates
  emitted,    \* per session: the outbound frames enqueued by the last step
  hist,       \* per session: history of what was emitted to it
  steps,      \* inbound events handled so far
  clients,    \* scripted clients: program, position and session of each
  kernel,     \* the operating system: descriptors, ports, byte streams
  server,     \* the TransportServer object
  transports, \* the Transport objects, in order of construction
  threads,    \* per thread: the ProcessIO call it is inside, if any
  observed,   \* what the calls made so far returned
  critic      \* the critic's call: what it is given and its critique

\* The transport layer's part of the state: the sequencer does not touch it.
transport_vars == <<kernel, server, transports, threads, observed>>

critic_vars == <<critic>>

vars == <<sessions, next_id, emitted, hist, steps, clients,
          kernel, server, transports, threads, observed, critic>>

(***************************************************************************)
(* Session state (section 3) and its state machine (section 4.4).          *)
(***************************************************************************)
StateRank(st) ==
  CASE st = "Handshaking" -> 0
    [] st = "Active" -> 1
    [] st = "Closing" -> 2
    [] st = "Dead" -> 3

\* A subscription: messages with from <= publish_seq (and publish_seq < until
\* once an Unsubscribe has taken effect) are eligible.  from = NoSeq: none.
NoSub == [from |-> NoSeq, until |-> NoSeq]

NewSession ==
  [ state |-> "Handshaking",
    id |-> NoId,
    subscriptions |-> [sel \in AllSelectors |-> NoSub],
    min_send_seq |-> kFirstSeqNum,
    min_recv_seq |-> kFirstSeqNum,
    pending_delivery |-> <<>>,
    pending_grant |-> NoSeq,
    error |-> "None" ]

\* History kept per session: the last Deliver emitted to it (as a sequence
\* of at most one message) and the largest value min_recv_seq was ever set to.
NewHist == [ last_deliver |-> <<>>, promised |-> kFirstSeqNum ]

Slots(ss) == 1 .. Len(ss)

\* A session is live from its successful handshake until a fatal error.
Live(ss, s) == ss[s].state = "Active"

LiveSet(ss) == { s \in Slots(ss) : Live(ss, s) }

RECURSIVE SetMin(_)
SetMin(S) ==
  IF S = {} THEN Infinity
  ELSE LET x == CHOOSE y \in S : TRUE
       IN Min(x, SetMin(S \ {x}))

\* Faulty variant: sessions that have closed keep holding the frontier.
GlobalFrontierWithClosed(ss) ==
  SetMin({ ss[s].min_send_seq :
             s \in { u \in Slots(ss) : ss[u].state # "Handshaking" } })

\* G = min over all live sessions of s.min_send_seq.
GlobalFrontier(ss) == SetMin({ ss[s].min_send_seq : s \in LiveSet(ss) })

\* The frontier used to clamp a subscription's effective-from.
GlobalReleaseFrontier(ss) == GlobalFrontier(ss)

(***************************************************************************)
(* Frames (section 6).                                                     *)
(***************************************************************************)
Hello == [type |-> "Hello"]
Subscribe(sel, eff) == [type |-> "Subscribe", sel |-> sel, seq |-> eff]
Unsubscribe(sel, eff) == [type |-> "Unsubscribe", sel |-> sel, seq |-> eff]
Publish(pseq, rseq, ch, pl) ==
  [type |-> "Publish", publish_seq |-> pseq, receive_seq |-> rseq,
   channel |-> ch, payload |-> pl]
ClearToAdvance(T) == [type |-> "ClearToAdvance", seq |-> T]
RequestAdvance(T) == [type |-> "RequestAdvance", seq |-> T]
DeliveryAck(k) == [type |-> "DeliveryAck", seq |-> k]
Malformed == [type |-> "Malformed"]

HelloAck(id, seq) == [type |-> "HelloAck", id |-> id, seq |-> seq]
SubscribeAck(eff) == [type |-> "SubscribeAck", seq |-> eff]
UnsubscribeAck(eff) == [type |-> "UnsubscribeAck", seq |-> eff]
AdvanceGrant(T) == [type |-> "AdvanceGrant", seq |-> T]
Deliver(m) == [type |-> "Deliver", msg |-> m]

Message(pub, pseq, rseq, ch, pl) ==
  [publisher |-> pub, publish_seq |-> pseq, receive_seq |-> rseq,
   channel |-> ch, payload |-> pl]

NoOut(ss) == [s \in Slots(ss) |-> <<>>]

(***************************************************************************)
(* Session.apply: one inbound frame's state transition (section 4.2 table, *)
(* section 4.4).  Each operator returns the new sessions, the outbound     *)
(* frames it enqueued, and the next ClientId.                              *)
(***************************************************************************)
\* Faulty variant: tearing a session down also retracts the messages it
\* published from the queues of the other sessions.
FatalRetracting(ss, s, err) ==
  [u \in Slots(ss) |->
     IF u = s
     THEN [ss[s] EXCEPT !.state = "Closing",
                        !.error = err,
                        !.subscriptions = [sel \in AllSelectors |-> NoSub],
                        !.pending_delivery = <<>>,
                        !.pending_grant = NoSeq]
     ELSE [ss[u] EXCEPT !.pending_delivery =
             SelectSeq(ss[u].pending_delivery,
                       LAMBDA m : m.publisher # ss[s].id)]]

\* Any fatal error moves the session to Closing; its subscriptions and
\* queued work die with it.
Fatal(ss, s, err) ==
  [ss EXCEPT ![s].state = "Closing",
             ![s].error = err,
             ![s].subscriptions = [sel \in AllSelectors |-> NoSub],
             ![s].pending_delivery = <<>>,
             ![s].pending_grant = NoSeq]

Reject(ss, s, nid) ==
  [ss |-> Fatal(ss, s, "ProtocolViolation"), out |-> NoOut(ss), nid |-> nid]

Accept(ss, out, nid) == [ss |-> ss, out |-> out, nid |-> nid]

\* Faulty variant: the id is the number of live sessions, so the id of a
\* session that died is given out again.
AllocateByCount(ss, nid) == FirstClientId + Cardinality(LiveSet(ss))

\* The ClientId allocated at a Hello: the next of a counter that only grows.
Allocate(ss, nid) == nid

\* Hello: precondition "session has no id".
ApplyHello(ss, s, nid) ==
  IF ss[s].state = "Handshaking"
  THEN Accept([ss EXCEPT ![s].state = "Active", ![s].id = Allocate(ss, nid)],
              [NoOut(ss) EXCEPT
                 ![s] = <<HelloAck(Allocate(ss, nid), kFirstSeqNum)>>],
              nid + 1)
  ELSE Reject(ss, s, nid)

\* Faulty variant: a Subscribe below the session's min_send_seq is taken.
ApplySubscribeUnchecked(ss, s, f, nid) ==
  LET eff == Max(f.seq, GlobalReleaseFrontier(ss))
  IN Accept([ss EXCEPT ![s].subscriptions[f.sel] =
                          [from |-> eff, until |-> NoSeq]],
            [NoOut(ss) EXCEPT ![s] = <<SubscribeAck(eff)>>],
            nid)

ApplySubscribe(ss, s, f, nid) ==
  IF f.seq >= ss[s].min_send_seq
  THEN LET eff == Max(f.seq, GlobalReleaseFrontier(ss))
       IN Accept([ss EXCEPT ![s].subscriptions[f.sel] =
                               [from |-> eff, until |-> NoSeq]],
                 [NoOut(ss) EXCEPT ![s] = <<SubscribeAck(eff)>>],
                 nid)
  ELSE Reject(ss, s, nid)

\* Faulty variant: the Unsubscribe also drops the queued messages of the
\* selector that were published at or after eff.
ApplyUnsubscribeRetracting(ss, s, f, nid) ==
  IF f.seq >= ss[s].min_send_seq
  THEN LET eff == Max(f.seq, GlobalReleaseFrontier(ss))
           old == ss[s].subscriptions[f.sel]
           new == IF old.from = NoSeq THEN old
                  ELSE [old EXCEPT !.until =
                          IF old.until = NoSeq THEN eff
                          ELSE Min(old.until, eff)]
       IN Accept([ss EXCEPT ![s].subscriptions[f.sel] = new,
                            ![s].pending_delivery =
                              SelectSeq(ss[s].pending_delivery,
                                LAMBDA m :
                                  ~ /\ (f.sel = m.channel \/ f.sel = AllChannels)
                                    /\ m.publish_seq >= eff)],
                 [NoOut(ss) EXCEPT ![s] = <<UnsubscribeAck(eff)>>],
                 nid)
  ELSE Reject(ss, s, nid)

ApplyUnsubscribe(ss, s, f, nid) ==
  IF f.seq >= ss[s].min_send_seq
  THEN LET eff == Max(f.seq, GlobalReleaseFrontier(ss))
           old == ss[s].subscriptions[f.sel]
           new == IF old.from = NoSeq THEN old
                  ELSE [old EXCEPT !.until =
                          IF old.until = NoSeq THEN eff
                          ELSE Min(old.until, eff)]
       IN Accept([ss EXCEPT ![s].subscriptions[f.sel] = new],
                 [NoOut(ss) EXCEPT ![s] = <<UnsubscribeAck(eff)>>],
                 nid)
  ELSE Reject(ss, s, nid)

\* A subscription matches a publication at pseq.
SubMatches(sub, pseq) ==
  /\ sub.from # NoSeq
  /\ sub.from <= pseq
  /\ (sub.until = NoSeq \/ pseq < sub.until)

\* Faulty variant: the publisher is never among the recipients.
RecipientsButPublisher(ss, m) ==
  { u \in LiveSet(ss) :
      /\ ss[u].id # m.publisher
      /\ \/ SubMatches(ss[u].subscriptions[m.channel], m.publish_seq)
         \/ SubMatches(ss[u].subscriptions[AllChannels], m.publish_seq) }

\* Published recipient resolution: channel-specific or wildcard subscription.
Recipients(ss, m) ==
  { u \in LiveSet(ss) :
      \/ SubMatches(ss[u].subscriptions[m.channel], m.publish_seq)
      \/ SubMatches(ss[u].subscriptions[AllChannels], m.publish_seq) }

\* Delivery order: by receive_seq, then publisher id, then publish order.
Before(a, b) ==
  \/ a.receive_seq < b.receive_seq
  \/ (a.receive_seq = b.receive_seq /\ a.publisher <= b.publisher)

\* Order-preserving insertion: after every queued message not after m.
Enqueue(q, m) ==
  LET k == Cardinality({ i \in 1 .. Len(q) : Before(q[i], m) })
  IN SubSeq(q, 1, k) \o <<m>> \o SubSeq(q, k + 1, Len(q))

\* Faulty variant: the causality precondition is not checked.
CausalUnchecked(f) == TRUE

\* Causality precondition of Publish: receive_seq > publish_seq.
Causal(f) == f.receive_seq > f.publish_seq

\* Faulty variant: the publication is enqueued but min_send_seq stays.
ApplyPublishWithoutClear(ss, s, f, nid) ==
  IF f.publish_seq >= ss[s].min_send_seq /\ Causal(f)
  THEN LET m == Message(ss[s].id, f.publish_seq, f.receive_seq,
                        f.channel, f.payload)
           rc == Recipients(ss, m)
       IN Accept([u \in Slots(ss) |->
                    IF u \in rc
                    THEN [ss[u] EXCEPT !.pending_delivery =
                                          Enqueue(ss[u].pending_delivery, m)]
                    ELSE ss[u]],
                 NoOut(ss), nid)
  ELSE Reject(ss, s, nid)

ApplyPublish(ss, s, f, nid) ==
  IF f.publish_seq >= ss[s].min_send_seq /\ Causal(f)
  THEN LET m == Message(ss[s].id, f.publish_seq, f.receive_seq,
                        f.channel, f.payload)
           s1 == [ss EXCEPT ![s].min_send_seq = f.publish_seq]
           rc == Recipients(s1, m)
       IN Accept([u \in Slots(ss) |->
                    IF u \in rc
                    THEN [s1[u] EXCEPT !.pending_delivery =
                                          Enqueue(s1[u].pending_delivery, m)]
                    ELSE s1[u]],
                 NoOut(ss), nid)
  ELSE Reject(ss, s, nid)

ApplyClearToAdvance(ss, s, f, nid) ==
  IF f.seq >= ss[s].min_send_seq
  THEN Accept([ss EXCEPT ![s].min_send_seq = f.seq], NoOut(ss), nid)
  ELSE Reject(ss, s, nid)

ApplyRequestAdvance(ss, s, f, nid) ==
  IF f.seq >= ss[s].min_recv_seq
  THEN Accept([ss EXCEPT ![s].pending_grant = f.seq], NoOut(ss), nid)
  ELSE Reject(ss, s, nid)

ApplyDeliveryAck(ss, s, f, nid) ==
  IF f.seq >= ss[s].min_recv_seq
  THEN Accept([ss EXCEPT ![s].min_recv_seq = Max(ss[s].min_recv_seq, f.seq)],
              NoOut(ss), nid)
  ELSE Reject(ss, s, nid)

\* Faulty variant: a closing session goes on applying inbound frames.
DropsInboundNever(st) == FALSE

\* Closing and Dead drop every inbound frame.
DropsInbound(st) == st \in {"Closing", "Dead"}

\* Session.apply.  Handshaking accepts only Hello.
Apply(ss, s, f, nid) ==
  CASE DropsInbound(ss[s].state) -> Accept(ss, NoOut(ss), nid)
    [] f.type = "Malformed" ->
         [ss |-> Fatal(ss, s, "Malformed"), out |-> NoOut(ss), nid |-> nid]
    [] f.type = "Hello" -> ApplyHello(ss, s, nid)
    [] ss[s].state = "Handshaking" -> Reject(ss, s, nid)
    [] f.type = "Subscribe" -> ApplySubscribe(ss, s, f, nid)
    [] f.type = "Unsubscribe" -> ApplyUnsubscribe(ss, s, f, nid)
    [] f.type = "Publish" -> ApplyPublish(ss, s, f, nid)
    [] f.type = "ClearToAdvance" -> ApplyClearToAdvance(ss, s, f, nid)
    [] f.type = "RequestAdvance" -> ApplyRequestAdvance(ss, s, f, nid)
    [] f.type = "DeliveryAck" -> ApplyDeliveryAck(ss, s, f, nid)

(***************************************************************************)
(* Grant arbitration (section 4.2), run after each state transition.       *)
(***************************************************************************)
\* Faulty variant: the requested value is granted whatever the frontier is.
GrantValueIgnoringFrontier(T, G) == T

\* The value granted to a session that asked for T while the frontier is G.
GrantValue(T, G) == Min(T, G)

\* Faulty variant: a message whose receive_seq equals G is held back.
DispatchCountStrict(q, G) ==
  Cardinality({ i \in 1 .. Len(q) : q[i].receive_seq < G })

\* The messages of q dispatched now: those with receive_seq <= G.  The
\* queue is ordered by receive_seq, so they are a prefix of it.
DispatchCount(q, G) == Cardinality({ i \in 1 .. Len(q) : q[i].receive_seq <= G })

DeliverFrames(q, n) == [i \in 1 .. n |-> Deliver(q[i])]

\* One session's turn: dispatch every Deliver with receive_seq <= G, in
\* queue order, then issue AdvanceGrant(g), g = min(T, G).
ArbitrateSession(sess, n, g) ==
  [ sess |-> [sess EXCEPT
                !.pending_delivery = SubSeq(sess.pending_delivery, n + 1,
                                            Len(sess.pending_delivery)),
                !.min_recv_seq = g,
                !.pending_grant = IF g = sess.pending_grant THEN NoSeq
                                  ELSE sess.pending_grant],
    out |-> DeliverFrames(sess.pending_delivery, n) \o <<AdvanceGrant(g)>> ]

\* A session takes part when it is live and has a grant pending.
Grantable(ss, s) == Live(ss, s) /\ ss[s].pending_grant # NoSeq

ArbitrateAt(ss, s, G) ==
  IF Grantable(ss, s)
  THEN ArbitrateSession(ss[s], DispatchCount(ss[s].pending_delivery, G),
                        GrantValue(ss[s].pending_grant, G))
  ELSE [sess |-> ss[s], out |-> <<>>]

\* Sessions are independent given G, so ascending ClientId order is the
\* order of the frames across sessions only.
ArbitrateWith(ss, G) == [s \in Slots(ss) |-> ArbitrateAt(ss, s, G)]

Arbitrate(ss) == ArbitrateWith(ss, GlobalFrontier(ss))

(***************************************************************************)
(* History of the frames emitted to each session.                          *)
(***************************************************************************)
IsDeliver(f) == f.type = "Deliver"
IsGrant(f) == f.type = "AdvanceGrant"

LastDeliver(frames, old) ==
  LET D == { i \in 1 .. Len(frames) : IsDeliver(frames[i]) }
  IN IF D = {} THEN old
     ELSE <<frames[CHOOSE i \in D : \A j \in D : j <= i].msg>>

NextHist(h, mid, new, frames) ==
  [ last_deliver |-> LastDeliver(frames, h.last_deliver),
    promised |-> Max(h.promised, Max(mid.min_recv_seq, new.min_recv_seq)) ]

(***************************************************************************)
(* HandleIO, one inbound event at a time: apply the frame drained from     *)
(* session s, evaluate the grants, dispatch deliveries and grants.         *)
(***************************************************************************)
\* a: the result of the event's own transition; b: of the arbitration.
CommitSessions(h, a, b) ==
  /\ sessions' = [u \in Slots(a.ss) |-> b[u].sess]
  /\ next_id' = a.nid
  /\ emitted' = [u \in Slots(a.ss) |-> a.out[u] \o b[u].out]
  /\ hist' = [u \in Slots(a.ss) |->
                NextHist(h[u], a.ss[u], b[u].sess, a.out[u] \o b[u].out)]

Commit(h, a, b) ==
  /\ CommitSessions(h, a, b)
  /\ UNCHANGED <<transport_vars, critic_vars>>

Transition(h, a) == \E b \in {Arbitrate(a.ss)} : Commit(h, a, b)

Handle(s, f) ==
  \E a \in {Apply(sessions, s, f, next_id)} : Transition(hist, a)

\* A change of the session set or of a session's state made by the
\* sequencer itself.
Restructure(ss, h) == Transition(h, Accept(ss, NoOut(ss), next_id))

\* The listener hands a new byte channel to the sequencer.
Accepted == Restructure(Append(sessions, NewSession), Append(hist, NewHist))

\* Transport EOF: fatal to a session that is not yet closing.
EOF(s) ==
  /\ sessions[s].state \in {"Handshaking", "Active"}
  /\ Restructure(Fatal(sessions, s, "Closed"), hist)

\* Closing: the byte channel is released and the session is Dead.
Release(s) ==
  /\ sessions[s].state = "Closing"
  /\ Restructure([sessions EXCEPT ![s].state = "Dead"], hist)

(***************************************************************************)
(* The sequencer under arbitrary clients: any frame may arrive on any      *)
(* session, in any order.                                                  *)
(***************************************************************************)
Tick ==
  /\ clients = <<>>
  /\ steps < MaxSteps
  /\ steps' = steps + 1
  /\ UNCHANGED clients

Connect == Tick /\ Len(sessions) < MaxConn /\ Accepted

RecvHello(s) == Tick /\ Handle(s, Hello)

RecvSubscribe(s) ==
  Tick /\ \E sel \in Selectors, eff \in SeqNums : Handle(s, Subscribe(sel, eff))

RecvUnsubscribe(s) ==
  Tick /\ \E sel \in Selectors, eff \in SeqNums :
            Handle(s, Unsubscribe(sel, eff))

RecvPublish(s) ==
  Tick /\ \E pseq \in SeqNums, rseq \in SeqNums, ch \in Channels,
             pl \in Payloads : Handle(s, Publish(pseq, rseq, ch, pl))

RecvClearToAdvance(s) == Tick /\ \E T \in SeqNums : Handle(s, ClearToAdvance(T))

RecvRequestAdvance(s) == Tick /\ \E T \in SeqNums : Handle(s, RequestAdvance(T))

RecvDeliveryAck(s) == Tick /\ \E k \in SeqNums : Handle(s, DeliveryAck(k))

RecvMalformed(s) == Tick /\ Handle(s, Malformed)

TransportEOF(s) == Tick /\ EOF(s)

CloseSession(s) == Tick /\ Release(s)

(***************************************************************************)
(* Client library (section 4.5): the state one DeterministicClient keeps,  *)
(* and each call as a function of that state giving the state after the    *)
(* call and the call's result.  The frames a call sends are appended to    *)
(* the outbound queue; the frames of the server are mirrored into the      *)
(* state as they arrive.                                                   *)
(***************************************************************************)
NewLibrary ==
  [min_send_seq |-> kFirstSeqNum,
   min_recv_seq |-> kFirstSeqNum,
   server_sequence_number |-> kFirstSeqNum,
   buffer |-> <<>>,
   outbound |-> <<>>,
   acks |-> <<>>,
   granted |-> FALSE]

Misuse(lib) == [lib |-> lib, result |-> "Misuse"]

Done(lib) == [lib |-> lib, result |-> "Ok"]

\* A library that lets every sequence number through.
LowersNever(lib, seq) == FALSE

\* The call mentions a sequence number below the client's min_send_seq.
Lowers(lib, seq) == seq < lib.min_send_seq

\* The call's frame is queued and min_send_seq advances to its number.
Queue(lib, seq, f) ==
  [lib EXCEPT !.min_send_seq = seq, !.outbound = Append(@, f)]

ClientSubscribe(lib, sel, seq) ==
  IF Lowers(lib, seq) THEN Misuse(lib)
  ELSE Done(Queue(lib, seq, Subscribe(sel, seq)))

ClientUnsubscribe(lib, sel, seq) ==
  IF Lowers(lib, seq) THEN Misuse(lib)
  ELSE Done(Queue(lib, seq, Unsubscribe(sel, seq)))

ClientPublish(lib, pseq, rseq, ch, pl) ==
  IF Lowers(lib, pseq) \/ rseq <= pseq THEN Misuse(lib)
  ELSE Done(Queue(lib, pseq, Publish(pseq, rseq, ch, pl)))

ClientClearToAdvance(lib, T) ==
  IF Lowers(lib, T) THEN Misuse(lib)
  ELSE Done(Queue(lib, T, ClearToAdvance(T)))

\* ReceiveUntil's first two steps: ClearToAdvance(T); request grant T.
ClientRequestUntil(lib, T) ==
  IF Lowers(lib, T) THEN Misuse(lib)
  ELSE Done([Queue(lib, T, ClearToAdvance(T))
               EXCEPT !.outbound = Append(@, RequestAdvance(T))])

\* ReceiveMessages: the buffered deliveries up to and including the latest
\* grant, in delivery order, with the current min_recv_seq; drains them.
ReceiveMessages(lib) ==
  [lib |-> [lib EXCEPT !.buffer =
              SelectSeq(@, LAMBDA m : m.receive_seq > lib.min_recv_seq)],
   msgs |-> SelectSeq(lib.buffer,
                      LAMBDA m : m.receive_seq <= lib.min_recv_seq),
   seq |-> lib.min_recv_seq]

\* An AwaitAdvance that returns on whatever grant arrives next.
AdvancedByAnyGrant(lib) == lib.granted

\* AwaitAdvance may return: a grant has exceeded the last value returned.
Advanced(lib) == lib.min_recv_seq > lib.server_sequence_number

\* AwaitAdvance starts to block; AwaitAdvance returns min_recv_seq.
AwaitStart(lib) == [lib EXCEPT !.granted = FALSE]

AwaitAdvance(lib) ==
  [lib EXCEPT !.server_sequence_number = lib.min_recv_seq,
              !.granted = FALSE]

\* One frame of the server arrives at the library.
MirrorFrame(lib, f) ==
  CASE f.type = "Deliver" -> [lib EXCEPT !.buffer = Append(@, f.msg)]
    [] f.type = "AdvanceGrant" ->
         [lib EXCEPT !.min_recv_seq = f.seq, !.granted = TRUE]
    [] f.type \in {"SubscribeAck", "UnsubscribeAck"} ->
         [lib EXCEPT !.acks = Append(@, f.seq)]
    [] OTHER -> lib

RECURSIVE Mirror(_, _)
Mirror(lib, frames) ==
  IF frames = <<>> THEN lib
  ELSE Mirror(MirrorFrame(lib, Head(frames)), Tail(frames))

(***************************************************************************)
(* Scripted clients: each runs a fixed program, a sequence of frames, of   *)
(* library calls and of blocking waits for a grant; the runs differ in the *)
(* order in which the sequencer drains the clients.                        *)
(***************************************************************************)
Await(T) == [type |-> "Await", seq |-> T]
Close == [type |-> "Close"]

\* The library calls a program makes.
CallSubscribe(sel, seq) ==
  [type |-> "Call", op |-> "Subscribe", sel |-> sel, seq |-> seq]
CallUnsubscribe(sel, seq) ==
  [type |-> "Call", op |-> "Unsubscribe", sel |-> sel, seq |-> seq]
CallPublish(pseq, rseq, ch, pl) ==
  [type |-> "Call", op |-> "Publish", seq |-> pseq, receive_seq |-> rseq,
   channel |-> ch, payload |-> pl]
CallClearToAdvance(T) == [type |-> "Call", op |-> "ClearToAdvance", seq |-> T]
CallReceiveMessages == [type |-> "Call", op |-> "ReceiveMessages"]
CallReceiveUntil(T) == [type |-> "Call", op |-> "ReceiveUntil", seq |-> T]

\* A client: its program and position, its connection, the frames it has
\* received, its library state, the blocking call it is in, and what its
\* calls have returned.
Client(prog) ==
  [prog |-> prog, pc |-> 1, slot |-> 0, received |-> <<>>,
   lib |-> NewLibrary, phase |-> "Idle", collected |-> <<>>,
   log |-> <<>>, drains |-> <<>>, awaits |-> <<>>, untils |-> <<>>]

\* S2 / publish-deliver.
ProgS2A == <<Hello, Publish(1, 2, "x", "p"), ClearToAdvance(3)>>
ProgS2B == <<Hello, Subscribe("x", 0), RequestAdvance(3)>>
ScenarioS2 == <<Client(ProgS2A), Client(ProgS2B)>>

\* S3 / grant gated by slow client.
ProgS3A == <<Hello, Subscribe("x", 0), RequestAdvance(5)>>
ProgS3B == <<Hello, Subscribe("x", 0), ClearToAdvance(1), ClearToAdvance(5)>>
ProgS3C == <<Hello, Subscribe("x", 0), ClearToAdvance(5)>>
ScenarioS3 == <<Client(ProgS3A), Client(ProgS3B), Client(ProgS3C)>>

\* S5 / causality rejection, beside a subscriber.
ProgS5A == <<Hello, Publish(2, 2, "x", "p")>>
ProgS5B == <<Hello, Subscribe("x", 0), ClearToAdvance(3), RequestAdvance(3)>>
ScenarioS5 == <<Client(ProgS5A), Client(ProgS5B)>>

\* A subscriber that publishes to itself, advances to 2, then to 3; and a
\* publisher that may join at any time and publishes at its starting
\* frontier.
ProgAdvancer ==
  <<Hello, Subscribe("x", 0), Publish(1, 2, "x", "p"), ClearToAdvance(2),
    RequestAdvance(2), Await(2), ClearToAdvance(3), RequestAdvance(3)>>
ProgJoiner == <<Hello, Publish(0, 1, "x", "q"), ClearToAdvance(3)>>
ScenarioJoin == <<Client(ProgAdvancer), Client(ProgJoiner)>>

\* A client that asks to advance to 3 beside one that closes its transport.
ProgRequester == <<Hello, ClearToAdvance(5), RequestAdvance(3)>>
ProgQuitter == <<Hello, Close>>
ScenarioQuit == <<Client(ProgRequester), Client(ProgQuitter)>>

\* A client that replaces its request by a lower one.
ProgLowering ==
  <<Hello, RequestAdvance(3), RequestAdvance(1), ClearToAdvance(5)>>
ScenarioLowering == <<Client(ProgLowering), Client(ProgS3C)>>

\* A publisher that breaks the protocol (a clear below its frontier) after
\* a publication, beside a subscriber that waits for a grant.
ProgCrasher ==
  <<Hello, Publish(0, 2, "x", "p"), ClearToAdvance(1), ClearToAdvance(0)>>
ScenarioCrash == <<Client(ProgCrasher), Client(ProgS5B)>>

\* S4 / wildcard vs specific: A holds the wildcard and a subscription to
\* "x"; B publishes on "x" and on "y".
ProgS4A ==
  <<Hello, Subscribe(AllChannels, 0), Subscribe("x", 0), ClearToAdvance(5),
    RequestAdvance(5)>>
ProgS4B ==
  <<Hello, Publish(1, 2, "x", "p"), Publish(3, 4, "y", "q"),
    ClearToAdvance(5)>>
ScenarioS4 == <<Client(ProgS4A), Client(ProgS4B)>>

\* A subscriber that unsubscribes at once, effective at 0, beside the
\* publisher of S2.
ProgLeaver ==
  <<Hello, Subscribe("x", 0), Unsubscribe("x", 0), ClearToAdvance(3),
    RequestAdvance(3)>>
ScenarioLeave == <<Client(ProgS2A), Client(ProgLeaver)>>

\* Two library clients: one advances to 2 while the other gets there in
\* steps, tries a lower sequence number on the way, and publishes twice at
\* one publish_seq.
ProgLibA == <<Hello, CallReceiveUntil(2)>>
ProgLibB ==
  <<Hello, CallClearToAdvance(1), CallSubscribe("x", 1),
    CallPublish(0, 1, "x", "p"), CallPublish(1, 2, "x", "p"),
    CallPublish(1, 2, "x", "q"), CallReceiveUntil(2)>>
ScenarioLib == <<Client(ProgLibA), Client(ProgLibB)>>

\* A library client that advances twice and drains, and a late joiner.
ProgLibAdvancer ==
  <<Hello, CallSubscribe("x", 0), CallPublish(1, 2, "x", "p"),
    CallReceiveUntil(2), CallReceiveMessages,
    CallReceiveUntil(3), CallReceiveMessages>>
ScenarioLibJoin == <<Client(ProgLibAdvancer), Client(ProgJoiner)>>

Scenarios ==
  {ScenarioS2, ScenarioS3, ScenarioS4, ScenarioS5, ScenarioJoin,
   ScenarioQuit, ScenarioLowering, ScenarioCrash, ScenarioLeave,
   ScenarioLib, ScenarioLibJoin}

Scripted == DOMAIN clients

Pending(c) == clients[c].slot # 0 /\ clients[c].pc <= Len(clients[c].prog)

NextFrame(c) == clients[c].prog[clients[c].pc]

\* Client c moves on (by pc and slot); every connected client receives the
\* frames the sequencer enqueued for its session.
ClientsAfter(c, pc, slot, out) ==
  [d \in Scripted |->
     LET sl == IF d = c THEN slot ELSE clients[d].slot
         arrived == IF sl = 0 THEN <<>> ELSE out[sl]
     IN [clients[d] EXCEPT !.pc = IF d = c THEN pc ELSE @,
                           !.slot = sl,
                           !.received = @ \o arrived,
                           !.lib = Mirror(@, arrived)]]

\* Transport Start: the listener accepts the client's connection.
ScriptStart(c) ==
  /\ clients[c].slot = 0
  /\ Accepted
  /\ clients' = ClientsAfter(c, clients[c].pc, Len(sessions) + 1, emitted')
  /\ UNCHANGED steps

\* The sequencer drains the client's next frame.
ScriptSend(c) ==
  /\ Pending(c)
  /\ NextFrame(c).type \notin {"Await", "Close", "Call"}
  /\ Handle(clients[c].slot, NextFrame(c))
  /\ clients' = ClientsAfter(c, clients[c].pc + 1, clients[c].slot, emitted')
  /\ UNCHANGED steps

\* The last grant the client has received (kFirstSeqNum before any).
LastGrant(frames) ==
  LET Gr == { i \in 1 .. Len(frames) : IsGrant(frames[i]) }
  IN IF Gr = {} THEN kFirstSeqNum
     ELSE frames[CHOOSE i \in Gr : \A j \in Gr : j <= i].seq

\* AwaitAdvance returns once a grant has reached the awaited value.
ScriptAwait(c) ==
  /\ Pending(c)
  /\ NextFrame(c).type = "Await"
  /\ LastGrant(clients[c].received) >= NextFrame(c).seq
  /\ clients' = [clients EXCEPT ![c].pc = @ + 1]
  /\ emitted' = NoOut(sessions)
  /\ UNCHANGED <<sessions, next_id, hist, steps>>
  /\ UNCHANGED <<transport_vars, critic_vars>>

\* The client closes its transport.
ScriptClose(c) ==
  /\ Pending(c)
  /\ NextFrame(c).type = "Close"
  /\ EOF(clients[c].slot)
  /\ clients' = ClientsAfter(c, clients[c].pc + 1, clients[c].slot, emitted')
  /\ UNCHANGED steps

ScriptRelease(c) ==
  /\ clients[c].slot # 0
  /\ Release(clients[c].slot)
  /\ clients' = ClientsAfter(c, clients[c].pc, clients[c].slot, emitted')
  /\ UNCHANGED steps

\* A library call of a client that is in no blocking call.
Calling(c) ==
  /\ Pending(c)
  /\ NextFrame(c).type = "Call"
  /\ clients[c].phase = "Idle"

\* A step inside the client: the sequencer sees nothing of it.
Local ==
  /\ emitted' = NoOut(sessions)
  /\ UNCHANGED <<sessions, next_id, hist, steps>>
  /\ UNCHANGED <<transport_vars, critic_vars>>

CallResult(lib, f) ==
  CASE f.op = "Subscribe" -> ClientSubscribe(lib, f.sel, f.seq)
    [] f.op = "Unsubscribe" -> ClientUnsubscribe(lib, f.sel, f.seq)
    [] f.op = "Publish" ->
         ClientPublish(lib, f.seq, f.receive_seq, f.channel, f.payload)
    [] f.op = "ClearToAdvance" -> ClientClearToAdvance(lib, f.seq)
    [] f.op = "ReceiveUntil" -> ClientRequestUntil(lib, f.seq)

\* Where a call that was let through leaves the caller: Subscribe and
\* Unsubscribe block until the ack, ReceiveUntil enters its loop.
PhaseAfter(f) ==
  CASE f.op \in {"Subscribe", "Unsubscribe"} -> "Ack"
    [] f.op = "ReceiveUntil" -> "Loop"
    [] OTHER -> "Idle"

\* Subscribe, Unsubscribe, Publish, ClearToAdvance, and the first steps of
\* ReceiveUntil: checked against min_send_seq, then queued.
ScriptCall(c) ==
  /\ Calling(c)
  /\ NextFrame(c).op # "ReceiveMessages"
  /\ \E r \in {CallResult(clients[c].lib, NextFrame(c))} :
       \E ph \in {IF r.result = "Misuse" THEN "Idle"
                   ELSE PhaseAfter(NextFrame(c))} :
         clients' = [clients EXCEPT
                       ![c].lib = r.lib,
                       ![c].log = Append(@, [op |-> NextFrame(c).op,
                                             seq |-> NextFrame(c).seq,
                                             result |-> r.result]),
                       ![c].phase = ph,
                       ![c].collected = <<>>,
                       ![c].pc = IF ph = "Idle" THEN @ + 1 ELSE @]
  /\ Local

\* The ack of a Subscribe or Unsubscribe has arrived: the call returns.
ScriptAcked(c) ==
  /\ clients[c].phase = "Ack"
  /\ clients[c].lib.acks # <<>>
  /\ clients' = [clients EXCEPT ![c].lib.acks = Tail(@),
                                ![c].phase = "Idle",
                                ![c].pc = @ + 1]
  /\ Local

\* A ReceiveMessages call of the program.
ScriptReceive(c) ==
  /\ Calling(c)
  /\ NextFrame(c).op = "ReceiveMessages"
  /\ \E r \in {ReceiveMessages(clients[c].lib)} :
       clients' = [clients EXCEPT
                     ![c].lib = r.lib,
                     ![c].drains = Append(@, [msgs |-> r.msgs,
                                              seq |-> r.seq]),
                     ![c].pc = @ + 1]
  /\ Local

\* ReceiveUntil's loop: while min_recv_seq < clear_until, ReceiveMessages
\* and then AwaitAdvance; otherwise the call returns.
ScriptLoop(c) ==
  /\ clients[c].phase = "Loop"
  /\ IF clients[c].lib.min_recv_seq >= NextFrame(c).seq
       THEN clients' = [clients EXCEPT
                          ![c].untils =
                             Append(@, [clear_until |-> NextFrame(c).seq,
                                        seq |-> clients[c].lib.min_recv_seq,
                                        msgs |-> clients[c].collected,
                                        left |-> clients[c].lib.buffer]),
                          ![c].phase = "Idle",
                          ![c].pc = @ + 1]
       ELSE \E r \in {ReceiveMessages(clients[c].lib)} :
              clients' = [clients EXCEPT
                            ![c].lib = AwaitStart(r.lib),
                            ![c].drains = Append(@, [msgs |-> r.msgs,
                                                     seq |-> r.seq]),
                            ![c].collected = @ \o r.msgs,
                            ![c].phase = "Await"]
  /\ Local

\* The AwaitAdvance of ReceiveUntil's loop returns.
ScriptAdvance(c) ==
  /\ clients[c].phase = "Await"
  /\ Advanced(clients[c].lib)
  /\ clients' = [clients EXCEPT
                   ![c].lib = AwaitAdvance(@),
                   ![c].awaits = Append(@, clients[c].lib.min_recv_seq),
                   ![c].phase = "Loop"]
  /\ Local

\* The sequencer drains the first frame of the client's outbound queue.
ScriptFlush(c) ==
  /\ clients[c].slot # 0
  /\ clients[c].lib.outbound # <<>>
  /\ Handle(clients[c].slot, Head(clients[c].lib.outbound))
  /\ clients' = [ClientsAfter(c, clients[c].pc, clients[c].slot, emitted')
                   EXCEPT ![c].lib.outbound = Tail(@)]
  /\ UNCHANGED steps

Init ==
  /\ sessions = <<>>
  /\ next_id = FirstClientId
  /\ emitted = <<>>
  /\ hist = <<>>
  /\ steps = 0
  /\ clients \in {<<>>} \cup Scenarios
  /\ kernel = <<>>
  /\ server = <<>>
  /\ transports = <<>>
  /\ threads = <<>>
  /\ observed = <<>>
  /\ critic = <<>>

Next ==
  \/ Connect
  \/ \E s \in Slots(sessions) : RecvHello(s)
  \/ \E s \in Slots(sessions) : RecvSubscribe(s)
  \/ \E s \in Slots(sessions) : RecvUnsubscribe(s)
  \/ \E s \in Slots(sessions) : RecvPublish(s)
  \/ \E s \in Slots(sessions) : RecvClearToAdvance(s)
  \/ \E s \in Slots(sessions) : RecvRequestAdvance(s)
  \/ \E s \in Slots(sessions) : RecvDeliveryAck(s)
  \/ \E s \in Slots(sessions) : RecvMalformed(s)
  \/ \E s \in Slots(sessions) : TransportEOF(s)
  \/ \E s \in Slots(sessions) : CloseSession(s)
  \/ \E c \in Scripted : ScriptStart(c)
  \/ \E c \in Scripted : ScriptSend(c)
  \/ \E c \in Scripted : ScriptAwait(c)
  \/ \E c \in Scripted : ScriptClose(c)
  \/ \E c \in Scripted : ScriptRelease(c)
  \/ \E c \in Scripted : ScriptCall(c)
  \/ \E c \in Scripted : ScriptAcked(c)
  \/ \E c \in Scripted : ScriptReceive(c)
  \/ \E c \in Scripted : ScriptLoop(c)
  \/ \E c \in Scripted : ScriptAdvance(c)
  \/ \E c \in Scripted : ScriptFlush(c)

Spec == Init /\ [][Next]_vars

(***************************************************************************)
(* The scripted clients alone, under fair scheduling of HandleIO: while a  *)
(* client's frame, connection or close is waiting, the sequencer gets to   *)
(* handle one.                                                             *)
(***************************************************************************)
InitScripted == Init /\ clients \in Scenarios

ScriptNext ==
  \/ \E c \in Scripted : ScriptStart(c)
  \/ \E c \in Scripted : ScriptSend(c)
  \/ \E c \in Scripted : ScriptAwait(c)
  \/ \E c \in Scripted : ScriptClose(c)
  \/ \E c \in Scripted : ScriptRelease(c)
  \/ \E c \in Scripted : ScriptCall(c)
  \/ \E c \in Scripted : ScriptAcked(c)
  \/ \E c \in Scripted : ScriptReceive(c)
  \/ \E c \in Scripted : ScriptLoop(c)
  \/ \E c \in Scripted : ScriptAdvance(c)
  \/ \E c \in Scripted : ScriptFlush(c)

FairSpec == InitScripted /\ [][ScriptNext]_vars /\ WF_vars(ScriptNext)

(***************************************************************************)
(* Properties.                                                             *)
(***************************************************************************)
GrantsTo(s) == { i \in 1 .. Len(emitted[s]) : IsGrant(emitted[s][i]) }
DeliversTo(s) == { i \in 1 .. Len(emitted[s]) : IsDeliver(emitted[s][i]) }

\* C1: grant safety.  Whenever the sequencer emits AdvanceGrant(T) to a
\* session s, no live session other than s has min_send_seq < T.
GrantSafety ==
  \A s \in Slots(sessions) : \A i \in GrantsTo(s) :
    \A u \in LiveSet(sessions) \ {s} :
      sessions[u].min_send_seq >= emitted[s][i].seq

\* A grant above kFirstSeqNum is emitted to s while a session that got its
\* ClientId after s is live.
GrantSafetyWitness ==
  \E s \in Slots(sessions) : \E i \in GrantsTo(s) :
    /\ emitted[s][i].seq > kFirstSeqNum
    /\ \E u \in LiveSet(sessions) : sessions[u].id > sessions[s].id

\* C2: deliver before grant.  When AdvanceGrant(T) is emitted to s, no
\* message with receive_seq <= T is left in s.pending_delivery, and no
\* Deliver follows the grant among the frames enqueued with it.
DeliverBeforeGrant ==
  \A s \in Slots(sessions) : \A i \in GrantsTo(s) :
    /\ \A k \in 1 .. Len(sessions[s].pending_delivery) :
         sessions[s].pending_delivery[k].receive_seq > emitted[s][i].seq
    /\ \A j \in DeliversTo(s) : j < i

\* A Deliver and the AdvanceGrant that covers it are emitted to a session
\* together, the message coming from another client.
DeliverBeforeGrantWitness ==
  \E s \in Slots(sessions) : \E i \in GrantsTo(s), j \in DeliversTo(s) :
    /\ emitted[s][j].msg.receive_seq <= emitted[s][i].seq
    /\ emitted[s][j].msg.publisher # sessions[s].id

\* C3: receive-frontier promise.  Once s.min_recv_seq has been set to a
\* value, no Deliver with a receive_seq below that value is sent to s
\* afterwards, whoever publishes, a client that joined later included.
ReceivePromise ==
  [][\A s \in Slots(sessions) : \A i \in 1 .. Len(emitted'[s]) :
       IsDeliver(emitted'[s][i]) =>
         emitted'[s][i].msg.receive_seq >= hist[s].promised]_vars

\* C4: frontier monotonicity.  No step lowers a session's min_send_seq or
\* its min_recv_seq.
FrontierMonotone ==
  [][\A s \in Slots(sessions) :
       /\ sessions'[s].min_send_seq >= sessions[s].min_send_seq
       /\ sessions'[s].min_recv_seq >= sessions[s].min_recv_seq]_vars

\* The half of C4 about min_send_seq alone.
SendFrontierMonotone ==
  [][\A s \in Slots(sessions) :
       sessions'[s].min_send_seq >= sessions[s].min_send_seq]_vars

KeyLeq(m, n) ==
  \/ m.receive_seq < n.receive_seq
  \/ /\ m.receive_seq = n.receive_seq
     /\ \/ m.publisher < n.publisher
        \/ m.publisher = n.publisher /\ m.publish_seq <= n.publish_seq

Ordered(ms) == \A i \in 1 .. Len(ms) - 1 : KeyLeq(ms[i], ms[i + 1])

Messages(frames) ==
  LET D == SelectSeq(frames, IsDeliver) IN [i \in 1 .. Len(D) |-> D[i].msg]

\* C5: per-client delivery order.  The messages delivered to a client come
\* in nondecreasing receive_seq, ties in ascending (publisher, publish_seq):
\* each Deliver sent follows the one sent before it in that order.
DeliveryOrder ==
  [][\A s \in Slots(sessions) :
       Ordered(hist[s].last_deliver \o Messages(emitted'[s]))]_vars

\* Every well-formed frame a client can send, over the bounded values.
ClientFrames ==
  {Hello}
    \cup { Subscribe(sel, eff) : sel \in Selectors, eff \in SeqNums }
    \cup { Unsubscribe(sel, eff) : sel \in Selectors, eff \in SeqNums }
    \cup { Publish(q[1], q[2], ch, pl) :
             q \in SeqNums \X SeqNums, ch \in Channels, pl \in Payloads }
    \cup { ClearToAdvance(T) : T \in SeqNums }
    \cup { RequestAdvance(T) : T \in SeqNums }
    \cup { DeliveryAck(k) : k \in SeqNums }

\* What Session.apply would make of frame f arriving on session s now.
Applied(s, f) == Apply(sessions, s, f, next_id).ss

\* C6: causality rejection.  A Publish with receive_seq <= publish_seq
\* arriving on a live session closes that session with ProtocolViolation
\* and leaves every other session as it was; every message queued in a
\* pending_delivery or delivered has receive_seq > publish_seq.
CausalityRejection ==
  /\ \A s \in Slots(sessions) :
       /\ \A k \in 1 .. Len(sessions[s].pending_delivery) :
            sessions[s].pending_delivery[k].receive_seq >
              sessions[s].pending_delivery[k].publish_seq
       /\ \A i \in DeliversTo(s) :
            emitted[s][i].msg.receive_seq > emitted[s][i].msg.publish_seq
  /\ \A s \in LiveSet(sessions) : \A f \in ClientFrames :
       (f.type = "Publish" /\ f.receive_seq <= f.publish_seq) =>
         /\ Applied(s, f)[s].state = "Closing"
         /\ Applied(s, f)[s].error = "ProtocolViolation"
         /\ \A u \in Slots(sessions) \ {s} : Applied(s, f)[u] = sessions[u]

\* The scripted publisher of S5 has had its Publish(2, 2) handled: its
\* session is closing with ProtocolViolation, while a live session that is
\* subscribed to the channel has nothing queued.
CausalityRejectionWitness ==
  \E c \in Scripted :
    /\ clients[c].prog = ProgS5A
    /\ clients[c].pc > Len(ProgS5A)
    /\ sessions[clients[c].slot].state = "Closing"
    /\ sessions[clients[c].slot].error = "ProtocolViolation"
    /\ \E u \in LiveSet(sessions) :
         /\ sessions[u].subscriptions["x"].from # NoSeq
         /\ sessions[u].pending_delivery = <<>>

Requested(s, T) ==
  /\ s \in Slots(sessions)
  /\ Live(sessions, s)
  /\ sessions[s].pending_grant = T

Answered(s, T) ==
  /\ s \in Slots(sessions)
  /\ \E i \in GrantsTo(s) : emitted[s][i].seq >= T

Gone(s) == s \in Slots(sessions) /\ ~Live(sessions, s)

Replaced(s, T) ==
  /\ s \in Slots(sessions)
  /\ Live(sessions, s)
  /\ sessions[s].pending_grant \notin {T, NoSeq}

AllAbove(T) == \A u \in LiveSet(sessions) : sessions[u].min_send_seq > T

\* The values the scripted clients ask for.
RequestValues == {1, 2, 3, 5}

Finished(c) == clients[c].slot # 0 /\ clients[c].pc > Len(clients[c].prog)

PayloadsOf(frames) ==
  LET ms == Messages(frames) IN [i \in 1 .. Len(ms) |-> ms[i].payload]

\* The run of ProgAdvancer beside ProgJoiner.
JoinRun == Len(clients) = 2 /\ clients[1].prog = ProgAdvancer

\* C8: determinism under permutation, for the two programs of ScenarioJoin
\* and the deliveries alone.  In whatever order the sequencer drained the
\* two clients, once both programs have run the advancer has received the
\* same messages in the same order: those it receives when the joiner is
\* drained first after the advancer's Subscribe.
PermutationDeterminism ==
  (JoinRun /\ \A c \in Scripted : Finished(c)) =>
    PayloadsOf(clients[1].received) = <<"q", "p">>

\* The reference outcome of C8 is the outcome of some order.
PermutationReference ==
  /\ JoinRun
  /\ \A c \in Scripted : Finished(c)
  /\ PayloadsOf(clients[1].received) = <<"q", "p">>

\* The run of scenario S3: A is client 1, B client 2, C client 3.
S3Run == Len(clients) = 3 /\ clients[1].prog = ProgS3A

GrantsReceived(c) ==
  { clients[c].received[i].seq :
      i \in { j \in 1 .. Len(clients[c].received) :
                IsGrant(clients[c].received[j]) } }

\* C9: scenario S3.  While B has not cleared past 1, A has received no
\* grant above 1; once A's RequestAdvance(5) and the ClearToAdvance(5) of B
\* and of C have been handled, A has received AdvanceGrant(5).
S3GrantGated ==
  S3Run =>
    /\ (clients[2].slot = 0 \/ sessions[clients[2].slot].min_send_seq <= 1)
         => \A g \in GrantsReceived(1) : g <= 1
    /\ (Finished(1) /\ Finished(2) /\ Finished(3)) => 5 \in GrantsReceived(1)

\* The first half of C9 alone.
S3NoEarlyGrant ==
  S3Run =>
    ((clients[2].slot = 0 \/ sessions[clients[2].slot].min_send_seq <= 1)
       => \A g \in GrantsReceived(1) : g <= 1)

\* Forward moves only, no outbound frame and no change but of the state
\* from Closing on.
SessionStep(s) ==
  /\ StateRank(sessions'[s].state) >= StateRank(sessions[s].state)
  /\ sessions[s].state = "Closing" =>
       sessions'[s].state \in {"Closing", "Dead"}
  /\ sessions[s].state \in {"Closing", "Dead"} =>
       [sessions'[s] EXCEPT !.state = sessions[s].state] = sessions[s]
  /\ sessions'[s].state \in {"Closing", "Dead"} => emitted'[s] = <<>>

\* What a session accepts: in Handshaking only Hello, in Active no Hello.
SessionAccepts(s) ==
  /\ (sessions[s].error # "None") <=>
       (sessions[s].state \in {"Closing", "Dead"})
  /\ sessions[s].state = "Handshaking" =>
       /\ Applied(s, Hello)[s].state = "Active"
       /\ \A f \in ClientFrames \ {Hello} :
            /\ Applied(s, f)[s].state = "Closing"
            /\ Applied(s, f)[s].error = "ProtocolViolation"
  /\ sessions[s].state = "Active" =>
       /\ Applied(s, Hello)[s].state = "Closing"
       /\ Applied(s, Hello)[s].error = "ProtocolViolation"

Fails(s) ==
  /\ sessions[s].state \in {"Handshaking", "Active"}
  /\ sessions'[s].state = "Closing"

\* G over the live sessions other than s.
FrontierWithout(ss, s) ==
  SetMin({ ss[u].min_send_seq : u \in LiveSet(ss) \ {s} })

\* C11: failure isolation.  In a step in which session s takes a fatal
\* error, every other session keeps its subscriptions and its min_send_seq,
\* its queue loses nothing but the messages dispatched to it in the step,
\* and its min_recv_seq changes only by a grant emitted to it; G is then the
\* minimum min_send_seq over the remaining live sessions; and a session
\* whose pending grant T is at most that minimum is sent AdvanceGrant(T).
FailureIsolation ==
  [][\A s \in Slots(sessions) : Fails(s) =>
       /\ GlobalFrontier(sessions') = FrontierWithout(sessions, s)
       /\ \A u \in Slots(sessions) \ {s} :
            /\ sessions'[u].subscriptions = sessions[u].subscriptions
            /\ sessions'[u].min_send_seq = sessions[u].min_send_seq
            /\ sessions'[u].state = sessions[u].state
            /\ sessions[u].pending_delivery =
                 Messages(emitted'[u]) \o sessions'[u].pending_delivery
            /\ \/ sessions'[u].min_recv_seq = sessions[u].min_recv_seq
               \/ \E i \in 1 .. Len(emitted'[u]) :
                    /\ IsGrant(emitted'[u][i])
                    /\ emitted'[u][i].seq = sessions'[u].min_recv_seq
            /\ ( /\ Live(sessions, u)
                 /\ sessions[u].pending_grant # NoSeq
                 /\ sessions[u].pending_grant <= FrontierWithout(sessions, s) )
               => /\ \E i \in 1 .. Len(emitted'[u]) :
                       /\ IsGrant(emitted'[u][i])
                       /\ emitted'[u][i].seq = sessions[u].pending_grant
                  /\ sessions'[u].pending_grant = NoSeq]_vars

\* The publisher of ScenarioCrash has just broken the protocol: its session
\* is Closing with ProtocolViolation, and in the same step the subscriber,
\* until then held at a partial grant, is sent the publisher's message and
\* the AdvanceGrant(3) it asked for.
FailureIsolationWitness ==
  /\ Len(clients) = 2
  /\ clients[1].prog = ProgCrasher
  /\ clients[1].slot # 0
  /\ clients[2].slot # 0
  /\ sessions[clients[1].slot].state = "Closing"
  /\ sessions[clients[1].slot].error = "ProtocolViolation"
  /\ \E i \in GrantsTo(clients[2].slot) : emitted[clients[2].slot][i].seq = 3
  /\ \E j \in DeliversTo(clients[2].slot) :
       emitted[clients[2].slot][j].msg.publisher = sessions[clients[1].slot].id
  /\ 1 \in GrantsReceived(2)

\* The sessions that have been given a ClientId, dead ones included.
Identified == { s \in Slots(sessions) : sessions[s].id # NoId }

\* C12: ClientId uniqueness.  The ClientIds given out are pairwise distinct,
\* those of sessions that have died included; they are FirstClientId and
\* its successors, so the first is 1; and every HelloAck carries the
\* session's id and kFirstSeqNum.
ClientIdUnique ==
  /\ \A s \in Identified : \A u \in Identified :
       sessions[s].id = sessions[u].id => s = u
  /\ { sessions[s].id : s \in Identified } =
       FirstClientId .. (FirstClientId + Cardinality(Identified) - 1)
  /\ next_id = FirstClientId + Cardinality(Identified)
  /\ \A s \in Slots(sessions) : \A i \in 1 .. Len(emitted[s]) :
       emitted[s][i].type = "HelloAck" =>
         /\ emitted[s][i].id = sessions[s].id
         /\ emitted[s][i].id # NoId
         /\ emitted[s][i].seq = kFirstSeqNum

\* A session completes its Hello after a session that held an id has died:
\* it is acknowledged with a greater id.
ClientIdUniqueWitness ==
  \E s \in Identified : \E u \in Identified :
    /\ sessions[s].state = "Dead"
    /\ Live(sessions, u)
    /\ \E i \in 1 .. Len(emitted[u]) :
         /\ emitted[u][i].type = "HelloAck"
         /\ emitted[u][i].id > sessions[s].id

\* Session u holds a subscription for selector sel that covers pseq.
Holds(u, sel, pseq) ==
  /\ Live(sessions, u)
  /\ sessions[u].subscriptions[sel].from # NoSeq
  /\ sessions[u].subscriptions[sel].from <= pseq
  /\ \/ sessions[u].subscriptions[sel].until = NoSeq
     \/ pseq < sessions[u].subscriptions[sel].until

\* Queue new is queue old with m inserted once.
InsertedOnce(old, new, m) ==
  \E k \in 0 .. Len(old) :
    new = SubSeq(old, 1, k) \o <<m>> \o SubSeq(old, k + 1, Len(old))

\* A Publish frame that session s may send now.
Acceptable(s, f) ==
  /\ f.type = "Publish"
  /\ f.publish_seq >= sessions[s].min_send_seq
  /\ f.receive_seq > f.publish_seq

AppliedOut(s, f) == Apply(sessions, s, f, next_id).out

\* Selector sel covers channel ch.
Covers(sel, ch) == sel = ch \/ sel = AllChannels

Count(m, ms) == Cardinality({ i \in 1 .. Len(ms) : ms[i] = m })

\* What is queued for a session that stays live is still queued after the
\* step or was sent to it as a Deliver in the step.
QueueKept(s) ==
  (Live(sessions, s) /\ Live(sessions', s)) =>
    \A k \in 1 .. Len(sessions[s].pending_delivery) :
      Count(sessions[s].pending_delivery[k], sessions[s].pending_delivery)
        <= Count(sessions[s].pending_delivery[k],
                 sessions'[s].pending_delivery)
             + Count(sessions[s].pending_delivery[k], Messages(emitted'[s]))

\* An Unsubscribe arriving now leaves the queue alone and ends the
\* subscription at eff; a subscription ended at eff still takes the
\* publications below eff and takes none at or above it.
UnsubscribeCutoff(s) ==
  /\ \A f \in ClientFrames :
       (f.type = "Unsubscribe" /\ f.seq >= sessions[s].min_send_seq) =>
         /\ Applied(s, f)[s].pending_delivery = sessions[s].pending_delivery
         /\ Applied(s, f)[s].state = "Active"
         /\ AppliedOut(s, f)[s] =
              <<UnsubscribeAck(Max(f.seq, GlobalReleaseFrontier(sessions)))>>
         /\ sessions[s].subscriptions[f.sel].from # NoSeq =>
              Applied(s, f)[s].subscriptions[f.sel].until \in
                { Max(f.seq, GlobalReleaseFrontier(sessions)),
                  sessions[s].subscriptions[f.sel].until }
              /\ Applied(s, f)[s].subscriptions[f.sel].until # NoSeq
              /\ Applied(s, f)[s].subscriptions[f.sel].until <=
                   Max(f.seq, GlobalReleaseFrontier(sessions))
  /\ \A p \in LiveSet(sessions) : \A f \in ClientFrames :
       Acceptable(p, f) =>
         LET subs == sessions[s].subscriptions
             m == Message(sessions[p].id, f.publish_seq, f.receive_seq,
                          f.channel, f.payload)
             ended(sel) == /\ subs[sel].from # NoSeq
                           /\ subs[sel].until # NoSeq
         IN /\ ( /\ ended(f.channel)
                 /\ subs[f.channel].from <= f.publish_seq
                 /\ f.publish_seq < subs[f.channel].until ) =>
                 InsertedOnce(sessions[s].pending_delivery,
                              Applied(p, f)[s].pending_delivery, m)
            /\ ( /\ ended(f.channel)
                 /\ f.publish_seq >= subs[f.channel].until
                 /\ ~Holds(s, AllChannels, f.publish_seq) ) =>
                 Applied(p, f)[s].pending_delivery =
                   sessions[s].pending_delivery

\* C15: Unsubscribe does not retract.  An Unsubscribe effective at eff
\* takes the session out of the recipients of publications with
\* publish_seq >= eff only, and no message queued for a live session leaves
\* its queue other than by being delivered to it.
UnsubscribeKeepsQueued ==
  /\ [](\A s \in LiveSet(sessions) : UnsubscribeCutoff(s))
  /\ [][\A s \in Slots(sessions) : QueueKept(s)]_vars

\* In ScenarioLeave the subscriber's Unsubscribe was acknowledged effective
\* at 0 and, after that, it was sent the message published at publish_seq 1
\* that was already queued for it.
UnsubscribeKeepsQueuedWitness ==
  /\ Len(clients) = 2
  /\ clients[2].prog = ProgLeaver
  /\ \E i \in 1 .. Len(clients[2].received) :
       \E j \in 1 .. Len(clients[2].received) :
         /\ i < j
         /\ clients[2].received[i] = UnsubscribeAck(0)
         /\ IsDeliver(clients[2].received[j])
         /\ clients[2].received[j].msg.publish_seq >= 0


(***************************************************************************)
(* Client library properties.                                              *)
(***************************************************************************)
CallSeqs == 0 .. MaxSeq + 1

\* The calls a client can make that mention a sequence number.
CallsAt(Q) ==
  { CallSubscribe(sel, q) : sel \in Selectors, q \in Q }
    \cup { CallUnsubscribe(sel, q) : sel \in Selectors, q \in Q }
    \cup { CallPublish(q, r, ch, pl) :
             q \in Q, r \in CallSeqs, ch \in Channels, pl \in Payloads }
    \cup { CallClearToAdvance(q) : q \in Q }
    \cup { CallReceiveUntil(q) : q \in Q }

SequencedCalls == CallsAt(CallSeqs)

\* The calls of a client's log that were accepted, in call order.
AcceptedCalls(c) == SelectSeq(clients[c].log, LAMBDA e : e.result = "Ok")

\* Whatever call the client makes next, it is refused with Misuse when its
\* number is below min_send_seq and then changes nothing, and otherwise
\* it leaves min_send_seq at its number.
CallChecked(lib, f) ==
  LET r == CallResult(lib, f)
  IN /\ r.result \in {"Ok", "Misuse"}
     /\ f.seq < lib.min_send_seq => r.result = "Misuse"
     /\ r.result = "Misuse" => r.lib = lib
     /\ r.result = "Ok" =>
          /\ f.seq >= lib.min_send_seq
          /\ r.lib.min_send_seq = f.seq

\* C16: client-local monotonicity.  Within one client the sequence numbers
\* of the accepted calls (Publish, ClearToAdvance, Subscribe, Unsubscribe,
\* and the ClearToAdvance of ReceiveUntil) are nondecreasing in call order
\* and min_send_seq is the last of them; a call with a number below
\* min_send_seq fails with Misuse and leaves the library state
\* (min_send_seq, min_recv_seq, buffer, outbound queue) as it was.
ClientLocalMonotonicity ==
  \A c \in Scripted :
    /\ \A i \in 1 .. Len(AcceptedCalls(c)) - 1 :
         AcceptedCalls(c)[i].seq <= AcceptedCalls(c)[i + 1].seq
    /\ AcceptedCalls(c) # <<>> =>
         clients[c].lib.min_send_seq =
           AcceptedCalls(c)[Len(AcceptedCalls(c))].seq
    /\ \A f \in SequencedCalls : CallChecked(clients[c].lib, f)

\* A client whose call was refused with Misuse between two accepted calls.
ClientLocalMonotonicityWitness ==
  \E c \in Scripted :
    \E i, j, k \in 1 .. Len(clients[c].log) :
      /\ i < j /\ j < k
      /\ clients[c].log[i].result = "Ok"
      /\ clients[c].log[j].result = "Misuse"
      /\ clients[c].log[j].seq < clients[c].log[i].seq
      /\ clients[c].log[k].result = "Ok"


\* The frames and the calls that mention a sequence number a client
\* promises not to go below.
Sequenced(f) ==
  f.type \in {"Publish", "Subscribe", "Unsubscribe", "ClearToAdvance"}

SeqOf(f) == IF f.type = "Publish" THEN f.publish_seq ELSE f.seq

\* Session s after the acceptable Publish f: min_send_seq is f's
\* publish_seq, as after ClearToAdvance(publish_seq); every frame with a
\* lower number is then fatal, and the same Publish again is accepted.
PublishClearsSession(s, f) ==
  \E after \in {Applied(s, f)} :
    /\ after[s].state = "Active"
    /\ after[s].min_send_seq = f.publish_seq
    /\ Applied(s, ClearToAdvance(f.publish_seq))[s].min_send_seq
         = f.publish_seq
    /\ \A g \in ClientFrames :
         Sequenced(g) /\ SeqOf(g) < f.publish_seq =>
           Apply(after, s, g, next_id).ss[s].state = "Closing"
    /\ Apply(after, s, f, next_id).ss[s].state = "Active"

\* The same of the library: after the accepted call Publish f.
PublishClearsLibrary(lib, f) ==
  \E r \in {CallResult(lib, f)} :
    r.result = "Ok" =>
      /\ r.lib.min_send_seq = f.seq
      /\ ClientClearToAdvance(lib, f.seq).lib.min_send_seq = f.seq
      /\ \A g \in CallsAt(0 .. f.seq - 1) :
           CallResult(r.lib, g).result = "Misuse"
      /\ CallResult(r.lib, f).result = "Ok"

\* C17: Publish implies ClearToAdvance.  An accepted Publish(m) leaves
\* min_send_seq, of the server session and of the client library, equal to
\* m.publish_seq, as ClearToAdvance(m.publish_seq) would; afterwards a
\* Publish, Subscribe, Unsubscribe or ClearToAdvance at a lower number is
\* refused, and a further Publish at the same publish_seq is accepted.
PublishImpliesClear ==
  /\ \A s \in LiveSet(sessions) :
       \A f \in ClientFrames :
         sessions[s].state = "Active" /\ Acceptable(s, f) =>
           PublishClearsSession(s, f)
  /\ \A c \in Scripted :
       \A q, r \in CallSeqs : \A ch \in Channels : \A pl \in Payloads :
         PublishClearsLibrary(clients[c].lib, CallPublish(q, r, ch, pl))

\* A library client has published twice at publish_seq 1 after clearing to
\* 1, both publications have reached its session, and min_send_seq is 1 on
\* both sides.
PublishImpliesClearWitness ==
  \E c \in Scripted :
    /\ clients[c].slot # 0
    /\ clients[c].lib.outbound = <<>>
    /\ clients[c].lib.min_send_seq = 1
    /\ sessions[clients[c].slot].state = "Active"
    /\ sessions[clients[c].slot].min_send_seq = 1
    /\ Len(sessions[clients[c].slot].pending_delivery) = 2
    /\ Len(SelectSeq(clients[c].log,
                     LAMBDA e : e.op = "Publish" /\ e.result = "Ok"
                                  /\ e.seq = 1)) = 2


\* C18: AwaitAdvance progress.  The values one client's AwaitAdvance calls
\* return are strictly increasing in call order, the last of them being
\* the library's server_sequence_number; a blocked AwaitAdvance that has
\* only seen grants not above the value last returned does not return.
AwaitProgress ==
  \A c \in Scripted :
    /\ \A i \in 1 .. Len(clients[c].awaits) - 1 :
         clients[c].awaits[i] < clients[c].awaits[i + 1]
    /\ clients[c].awaits # <<>> =>
         clients[c].awaits[Len(clients[c].awaits)]
           = clients[c].lib.server_sequence_number
    /\ clients[c].lib.min_recv_seq <= clients[c].lib.server_sequence_number
         => ~Advanced(clients[c].lib)

\* A client blocked in AwaitAdvance after an earlier return, to which the
\* server has since repeated the grant of the value returned.
AwaitProgressWitness ==
  \E c \in Scripted :
    /\ clients[c].phase = "Await"
    /\ clients[c].awaits # <<>>
    /\ clients[c].lib.granted
    /\ clients[c].lib.min_recv_seq = clients[c].lib.server_sequence_number
    /\ clients[c].lib.min_recv_seq < NextFrame(c).seq


RECURSIVE Flatten(_)
Flatten(ds) == IF ds = <<>> THEN <<>> ELSE Head(ds).msgs \o Flatten(Tail(ds))

\* The messages the client's ReceiveMessages calls have returned, in order.
Returned(c) == Flatten(clients[c].drains)

\* Each delivery the library received is either still buffered or was
\* returned by one ReceiveMessages call.
ReturnedOnce(c) ==
  \A m \in { Messages(clients[c].received)[i] :
               i \in 1 .. Len(Messages(clients[c].received)) } :
    Count(m, Returned(c) \o clients[c].lib.buffer)
      = Count(m, Messages(clients[c].received))

\* A call returns only deliveries up to and including the grant it returns.
ReturnedUpToGrant(c) ==
  \A i \in 1 .. Len(clients[c].drains) :
    \A k \in 1 .. Len(clients[c].drains[i].msgs) :
      clients[c].drains[i].msgs[k].receive_seq <= clients[c].drains[i].seq

\* Within a call and across calls receive_seq does not decrease.
ReturnedInOrder(c) ==
  \A i \in 1 .. Len(Returned(c)) - 1 :
    Returned(c)[i].receive_seq <= Returned(c)[i + 1].receive_seq

\* The number returned by a call bounds the messages of every later call.
ReturnedBound(c) ==
  \A i, j \in 1 .. Len(clients[c].drains) :
    i < j =>
      \A k \in 1 .. Len(clients[c].drains[j].msgs) :
        clients[c].drains[i].seq <= clients[c].drains[j].msgs[k].receive_seq

\* The parts of C19 that concern the library alone.
ReceiveDrainsOnce ==
  \A c \in Scripted : ReturnedOnce(c) /\ ReturnedUpToGrant(c)

\* C19: ReceiveMessages drains in order.  Each delivery received by the
\* library is returned by exactly one ReceiveMessages call, the messages of
\* one call and of successive calls are in nondecreasing receive_seq order,
\* a call returns only deliveries with receive_seq up to and including the
\* latest grant, and the number a call returns is a lower bound on the
\* receive_seq of every message a later call returns.
ReceiveDrainsInOrder ==
  \A c \in Scripted :
    /\ ReturnedOnce(c)
    /\ ReturnedUpToGrant(c)
    /\ ReturnedInOrder(c)
    /\ ReturnedBound(c)


\* ReceiveUntil returns only with min_recv_seq at or above clear_until.
ReceiveUntilReached ==
  \A c \in Scripted :
    \A i \in 1 .. Len(clients[c].untils) :
      clients[c].untils[i].seq >= clients[c].untils[i].clear_until

\* A client inside ReceiveUntil gets out of it.
ReceiveUntilReturns ==
  \A c \in 1 .. MaxConn :
    (c \in Scripted /\ clients[c].phase \in {"Loop", "Await"})
      ~> (clients[c].phase = "Idle")

\* C20: ReceiveUntil(T).  The call returns only when the client's
\* min_recv_seq is at least T, and at its return no delivery to the client
\* with receive_seq <= T is left unreturned in the library's buffer.
ReceiveUntilComplete ==
  \A c \in Scripted :
    \A i \in 1 .. Len(clients[c].untils) :
      /\ clients[c].untils[i].seq >= clients[c].untils[i].clear_until
      /\ \A k \in 1 .. Len(clients[c].untils[i].left) :
           clients[c].untils[i].left[k].receive_seq
             > clients[c].untils[i].clear_until


(***************************************************************************)
(* The transport layer (transport.h, transport.cc).                        *)
(*                                                                         *)
(* The operating system as the transport uses it: descriptors, listening   *)
(* sockets with their queue of connections not yet accepted, and           *)
(* connections, each a byte stream per direction.  socket() and accept()   *)
(* return the lowest free descriptor.  A stream holds the bytes sent and   *)
(* still under way and the bytes that have arrived at the receiving        *)
(* socket; the end of the stream follows the last byte.                    *)
(***************************************************************************)
MaxFiles == 5

MaxPayload == 5

MaxPort == 2

Descriptors == 0 .. MaxFiles

Ports == 1 .. MaxPort

File(kind, port, conn, side, backlog) ==
  [kind |-> kind, port |-> port, conn |-> conn, side |-> side,
   backlog |-> backlog]

FreeFile == File("free", 0, 0, "", <<>>)

\* A descriptor the process holds for something else (standard input).
OtherFile == File("other", 0, 0, "", <<>>)

EmptyStream == [flight |-> <<>>, arrived |-> <<>>, fin |-> "open"]

\* A connection: the two streams, and the address (four octets) and the
\* port (sin_port, in network byte order) the client connected from.
Connection(addr, port) ==
  [up |-> EmptyStream, down |-> EmptyStream, addr |-> addr, port |-> port]

\* The direction a side writes to, and the one it reads from.
Outgoing(side) == IF side = "client" THEN "up" ELSE "down"

Incoming(side) == IF side = "client" THEN "down" ELSE "up"

\* What a read past the end of a vector may find on the heap, and what a
\* read of allocated, never written storage as a length may give.
HeapBytes == {0, 127}

FreshWords == {0, MaxPayload}

\* A process is started with descriptor 0 open or closed; heap and fresh
\* are what its memory holds where the transport reads what it never wrote.
Kernels ==
  { [files |-> [d \in Descriptors |->
                  IF d = 0 THEN zero ELSE FreeFile],
     conns |-> <<>>, heap |-> h, fresh |-> w] :
      zero \in {OtherFile, FreeFile}, h \in HeapBytes, w \in FreshWords }

FreeDescriptors(k) == { d \in Descriptors : k.files[d].kind = "free" }

LowestFree(k) ==
  CHOOSE d \in FreeDescriptors(k) : \A e \in FreeDescriptors(k) : d <= e

Listening(k, port) ==
  { d \in Descriptors : k.files[d].kind = "listen" /\ k.files[d].port = port }

BoundPorts(k) ==
  { k.files[d].port : d \in { e \in Descriptors : k.files[e].kind = "listen" } }

\* socket(): a new, unconnected socket on the lowest free descriptor.
socket(k) ==
  [k EXCEPT !.files[LowestFree(k)] = File("socket", 0, 0, "", <<>>)]

\* bind() and listen().
listen(k, fd, port) ==
  [k EXCEPT !.files[fd] = File("listen", port, 0, "", <<>>)]

\* connect() to a port somebody listens on: the connection is established
\* and waits in the listener's queue.
connect(k, fd, port, from) ==
  LET l == CHOOSE d \in Listening(k, port) : TRUE
      c == Len(k.conns) + 1
  IN [k EXCEPT !.conns = Append(@, Connection(from.addr, from.port)),
               !.files[fd] = File("stream", 0, c, "client", <<>>),
               !.files[l].backlog = Append(@, c)]

\* accept(): the first waiting connection, on the lowest free descriptor.
accept(k, fd) ==
  [k EXCEPT !.files[LowestFree(k)] =
               File("stream", 0, Head(k.files[fd].backlog), "server", <<>>),
            !.files[fd].backlog = Tail(@)]

\* close(): the descriptor is free again; the peer of a connection will see
\* the end of the stream after the bytes under way.
close(k, fd) ==
  LET f == k.files[fd]
      closed == [k EXCEPT !.files[fd] = FreeFile]
  IN IF f.kind = "stream"
       THEN [closed EXCEPT !.conns[f.conn][Outgoing(f.side)].fin = "sent"]
       ELSE closed

\* The bytes a socket holds on their way to the peer, at most.
SocketBuffer == 6

Stream(k, fd, way) ==
  k.conns[k.files[fd].conn][IF way = "Outgoing" THEN Outgoing(k.files[fd].side)
                                                 ELSE Incoming(k.files[fd].side)]

\* Whether the peer of fd has closed its end.
PeerGone(k, fd) == Stream(k, fd, "Incoming").fin # "open"

Room(k, fd) ==
  IF PeerGone(k, fd) THEN SocketBuffer
  ELSE SocketBuffer - Len(Stream(k, fd, "Outgoing").flight)
                    - Len(Stream(k, fd, "Outgoing").arrived)

\* send(MSG_DONTWAIT): the count of bytes the socket takes, 0 for
\* EWOULDBLOCK.  Bytes sent to a peer that is gone are dropped.
Sendable(k, fd, n) == Min(n, Room(k, fd))

send(k, fd, bytes) ==
  IF PeerGone(k, fd) THEN k
  ELSE [k EXCEPT !.conns[k.files[fd].conn][Outgoing(k.files[fd].side)].flight
                   = @ \o bytes]

\* recv(MSG_DONTWAIT): the count of bytes read, 0 for EWOULDBLOCK and for
\* the end of the stream, which EndOfStream tells apart.
Receivable(k, fd, n) == Min(n, Len(Stream(k, fd, "Incoming").arrived))

EndOfStream(k, fd) ==
  /\ Stream(k, fd, "Incoming").arrived = <<>>
  /\ Stream(k, fd, "Incoming").fin = "arrived"

Received(k, fd, n) == SubSeq(Stream(k, fd, "Incoming").arrived, 1, n)

recv(k, fd, n) ==
  [k EXCEPT !.conns[k.files[fd].conn][Incoming(k.files[fd].side)].arrived
              = SubSeq(@, n + 1, Len(@))]

\* The network moves the first n bytes under way to the receiving socket,
\* and the end of the stream once no byte is left under way.
Arrive(k, c, dir, n) ==
  [k EXCEPT !.conns[c][dir].arrived = @ \o SubSeq(k.conns[c][dir].flight, 1, n),
            !.conns[c][dir].flight = SubSeq(@, n + 1, Len(@))]

ArriveFin(k, c, dir) == [k EXCEPT !.conns[c][dir].fin = "arrived"]

(***************************************************************************)
(* Transport: buffers and the two nonblocking transfer functions.          *)
(***************************************************************************)
kHeaderSize == 4

kServer == 1

kClient == 2

\* htonl() laid out in memory, and ntohl() of four bytes of memory.
htonl(n) ==
  << (n \div 16777216) % 256, (n \div 65536) % 256, (n \div 256) % 256,
     n % 256 >>

ntohl(b) == ((b[1] * 256 + b[2]) * 256 + b[3]) * 256 + b[4]

\* The content of storage that was allocated and never written.
Indeterminate == 256

\* Send's TxBuffer{data.size(), data, 0}.
TxBuffer(data) == [payload_size |-> Len(data), data |-> data, bytes_sent |-> 0]

\* The storage of a vector<uint8_t> whose size() is 0, as the transport
\* keeps RxBuffer::data: it only ever calls reserve() on it and writes
\* through data().  cells are the bytes of the storage up to the last one
\* written; the storage from there to the capacity is indeterminate.
Storage(capacity, cells) == [capacity |-> capacity, cells |-> cells]

\* make_unique<RxBuffer>(): value-initialised; data is an empty vector.
RxBuffer ==
  [payload_size |-> 0, data |-> Storage(0, <<>>), bytes_received |-> 0]

TxDone(b) == b.bytes_sent = b.payload_size + kHeaderSize

RxDone(b) == b.bytes_received = b.payload_size + kHeaderSize

\* vector::reserve(n): new storage when the capacity is below n.  No element
\* is moved, as size() is 0: the new storage is indeterminate.
reserve(data, n) == IF n > data.capacity THEN Storage(n, <<>>) ELSE data

\* The byte at data.data()[i - 1].
Cell(data, i) == IF i <= Len(data.cells) THEN data.cells[i] ELSE Indeterminate

\* Storage written from offset `at` on.
Written(data, at, bytes) ==
  [data EXCEPT !.cells =
     [i \in 1 .. Max(Len(data.cells), at + Len(bytes)) |->
        IF at < i /\ i <= at + Len(bytes) THEN bytes[i - at]
        ELSE Cell(data, i)]]

\* data.data()[at .. at + n): the vector's elements, and past its end
\* whatever the heap holds there.
ReadTx(b, at, n, heap) ==
  [i \in 1 .. n |-> IF at + i <= Len(b.data) THEN b.data[at + i] ELSE heap]

\* The header loop of TryNonblockingSend.
RECURSIVE SendHeader(_, _, _)
SendHeader(k, fd, b) ==
  IF b.bytes_sent < kHeaderSize
    THEN LET n == Sendable(k, fd, kHeaderSize - b.bytes_sent)
         IN IF n = 0
              THEN [kernel |-> k, buffer |-> b, blocked |-> TRUE]
              ELSE SendHeader(
                     send(k, fd, SubSeq(htonl(b.payload_size),
                                        b.bytes_sent + 1, b.bytes_sent + n)),
                     fd, [b EXCEPT !.bytes_sent = @ + n])
    ELSE [kernel |-> k, buffer |-> b, blocked |-> FALSE]

\* The payload loop of TryNonblockingSend.
RECURSIVE SendPayload(_, _, _, _)
SendPayload(k, fd, b, heap) ==
  IF b.bytes_sent < b.payload_size + kHeaderSize
    THEN LET n == Sendable(k, fd, b.payload_size + kHeaderSize - b.bytes_sent)
         IN IF n = 0
              THEN [kernel |-> k, buffer |-> b, blocked |-> TRUE]
              ELSE SendPayload(
                     send(k, fd, ReadTx(b, b.bytes_sent, n, heap)),
                     fd, [b EXCEPT !.bytes_sent = @ + n], heap)
    ELSE [kernel |-> k, buffer |-> b, blocked |-> FALSE]

\* Returns true in every case the model has: send() gives 0 for no request
\* of one byte or more.
TryNonblockingSend(k, fd, b, heap) ==
  LET h == SendHeader(k, fd, b)
  IN IF h.blocked THEN h ELSE SendPayload(h.kernel, fd, h.buffer, heap)

\* One of the two receive loops of TryNonblockingReceive, up to `length`.
RECURSIVE ReceiveUpTo(_, _, _, _)
ReceiveUpTo(k, fd, b, length) ==
  IF b.bytes_received < length
    THEN LET n == Receivable(k, fd, length - b.bytes_received)
         IN IF n = 0
              THEN [kernel |-> k, buffer |-> b, returned |-> TRUE,
                    still_open |-> ~EndOfStream(k, fd)]
              ELSE ReceiveUpTo(
                     recv(k, fd, n), fd,
                     [b EXCEPT !.data = Written(@, b.bytes_received,
                                                Received(k, fd, n)),
                               !.bytes_received = @ + n],
                     length)
    ELSE [kernel |-> k, buffer |-> b, returned |-> FALSE, still_open |-> TRUE]

\* The four bytes at data.data() read as the length; `word` is what the
\* read gives when the storage there is indeterminate.
ReadLength(data, word) ==
  IF \E i \in 1 .. kHeaderSize : Cell(data, i) = Indeterminate
    THEN word
    ELSE ntohl(data.cells)

TryNonblockingReceive(k, fd, b, word) ==
  LET h == ReceiveUpTo(k, fd, [b EXCEPT !.data = reserve(@, kHeaderSize)],
                       kHeaderSize)
      size == ReadLength(h.buffer.data, word)
  IN IF h.returned THEN h
     ELSE ReceiveUpTo(h.kernel, fd,
                      [h.buffer EXCEPT
                         !.payload_size = size,
                         !.data = reserve(@, size + kHeaderSize)],
                      size + kHeaderSize)

(***************************************************************************)
(* Transport and TransportServer objects and their member functions.  A    *)
(* unique_ptr and an optional are a sequence of no or one element.         *)
(***************************************************************************)
Config(end, remote_addr, remote_port) ==
  [end |-> end, remote_addr |-> remote_addr, remote_port |-> remote_port,
   mtu |-> 1024, max_inbound_queue_size |-> 32,
   max_outbound_queue_size |-> 32]

\* Transport::Transport: stores the config, nothing else.
Transport(config) ==
  [config_ |-> config,
   sock_fd_ |-> -1,
   io_thread_id_ |-> <<>>,
   inbound_buffers_ |-> <<>>,
   current_incoming_message_ |-> <<>>,
   outbound_buffers_ |-> <<>>,
   current_outgoing_message_ |-> <<>>]

\* Faulty variant: the datagram is put at the head of the outbound queue.
SendBufferAtHead(tr, data) ==
  [tr EXCEPT !.outbound_buffers_ = <<data>> \o @]

SendBuffer(tr, data) == [tr EXCEPT !.outbound_buffers_ = Append(@, data)]

Send(tr, data) == SendBuffer(tr, TxBuffer(data))

ReceiveAll(tr) ==
  [transport |-> [tr EXCEPT !.inbound_buffers_ = <<>>],
   result |-> tr.inbound_buffers_]

\* ProcessIO, first half: the next outbound buffer becomes the current
\* outgoing message.
TakeOutbound(tr) ==
  IF tr.current_outgoing_message_ = <<>> /\ tr.outbound_buffers_ # <<>>
    THEN [tr EXCEPT !.current_outgoing_message_ = <<Head(tr.outbound_buffers_)>>,
                    !.outbound_buffers_ = Tail(@)]
    ELSE tr

\* ProcessIO's send loop, up to the point where it is through (blocked is
\* FALSE) or send() would block: there the loop goes round until the socket
\* takes bytes again.
RECURSIVE SendLoop(_, _, _)
SendLoop(k, tr, heap) ==
  IF tr.current_outgoing_message_ = <<>>
    THEN [kernel |-> k, transport |-> tr, blocked |-> FALSE]
    ELSE LET r == TryNonblockingSend(k, tr.sock_fd_,
                                     tr.current_outgoing_message_[1], heap)
         IN IF TxDone(r.buffer)
              THEN SendLoop(r.kernel,
                            TakeOutbound([tr EXCEPT
                                            !.current_outgoing_message_ = <<>>]),
                            heap)
              ELSE [kernel |-> r.kernel,
                    transport |-> [tr EXCEPT !.current_outgoing_message_ =
                                               <<r.buffer>>],
                    blocked |-> TRUE]

\* ProcessIO's receive loop; result is what ProcessIO returns.
RECURSIVE ReceiveLoop(_, _, _)
ReceiveLoop(k, tr, word) ==
  LET current == IF tr.current_incoming_message_ = <<>> THEN RxBuffer
                 ELSE tr.current_incoming_message_[1]
      r == TryNonblockingReceive(k, tr.sock_fd_, current, word)
  IN IF ~r.still_open
       THEN [kernel |-> r.kernel,
             transport |-> [tr EXCEPT !.current_incoming_message_ =
                                        <<r.buffer>>],
             result |-> FALSE]
       ELSE IF RxDone(r.buffer)
         THEN ReceiveLoop(r.kernel,
                          [tr EXCEPT !.inbound_buffers_ = Append(@, r.buffer),
                                     !.current_incoming_message_ = <<RxBuffer>>],
                          word)
         ELSE [kernel |-> r.kernel,
               transport |-> [tr EXCEPT !.current_incoming_message_ =
                                          <<r.buffer>>],
               result |-> TRUE]

\* htons() and ntohs(): the two bytes of a port, swapped.
htons(p) == (p % 256) * 256 + p \div 256

ntohs(p) == (p % 256) * 256 + p \div 256

\* fmt::format("{}", port): the decimal digits, as characters.
RECURSIVE FormatPort(_)
FormatPort(p) ==
  IF p < 10 THEN <<48 + p>> ELSE Append(FormatPort(p \div 10), 48 + (p % 10))

\* getaddrinfo()'s reading of the service: a decimal number.
RECURSIVE ParsePort(_)
ParsePort(s) ==
  IF s = <<>> THEN 0
  ELSE 10 * ParsePort(SubSeq(s, 1, Len(s) - 1)) + s[Len(s)] - 48

\* "localhost", the name the clients are given for the server's host.
localhost == <<108, 111, 99, 97, 108, 104, 111, 115, 116>>

\* getaddrinfo()'s reading of the node: the server's host by its name, a
\* one-digit number n as the address 0.0.0.n, nothing else.
getaddrinfo(name) ==
  CASE name = localhost -> "server"
    [] Len(name) = 1 /\ name[1] \in 49 .. 57 -> "elsewhere"
    [] OTHER -> ""

\* sin_addr.s_addr of four octets, on a little-endian host.
s_addr(octets) ==
  octets[1] + 256 * octets[2] + 65536 * octets[3] + 16777216 * octets[4]

\* std::string's assignment of an integer: operator=(char), one character.
AssignedInteger(n) == <<n % 256>>

\* The outcome of a call: the state it leaves, and whether it threw.
Outcome(k, object, thrown) ==
  [kernel |-> k, object |-> object, thrown |-> thrown]

max_connection_queue_size == 5

\* Whether connect() to the port completes at once: somebody listens and
\* the queue of the listener has room.
Connectable(k, port) ==
  \E d \in Listening(k, port) :
    Len(k.files[d].backlog) < max_connection_queue_size

\* Transport::Start, called on a host with address from.addr, the socket
\* getting the source port from.port.
Start(k, tr, from) ==
  CASE tr.config_.end = kClient ->
         LET host == getaddrinfo(tr.config_.remote_addr)
             port == htons(ParsePort(FormatPort(tr.config_.remote_port)))
             reset == [tr EXCEPT !.sock_fd_ = -1]
             opened == [tr EXCEPT !.sock_fd_ = LowestFree(k)]
         IN IF host = "" THEN Outcome(k, tr, TRUE)
            ELSE IF FreeDescriptors(k) = {} THEN Outcome(k, reset, TRUE)
            ELSE IF host = "server" /\ Connectable(k, port)
              THEN Outcome(connect(socket(k), LowestFree(k), port, from),
                           opened, FALSE)
              ELSE Outcome(socket(k), opened, TRUE)
    [] tr.config_.end = kServer -> Outcome(k, tr, FALSE)
    [] OTHER -> Outcome(k, tr, TRUE)

\* Transport::~Transport.
DestroyTransport(k, tr) == IF tr.sock_fd_ >= 0 THEN close(k, tr.sock_fd_) ELSE k

(***************************************************************************)
(* TransportServer.                                                        *)
(***************************************************************************)
ServerConfig(listen_port, prototype) ==
  [listen_port |-> listen_port, transport_config_prototype |-> prototype]

TransportServer(config) == [config_ |-> config, sock_fd_ |-> -1]

\* BoundListeningSocket: socket(), bind(), listen(); any failure throws.
\* `port` is the port the system picks when listen_port is 0.
BoundListeningSocket(k, config, port) ==
  LET sin_port == htons(IF config.listen_port = 0 THEN port
                        ELSE config.listen_port)
  IN IF FreeDescriptors(k) = {} THEN Outcome(k, -1, TRUE)
     ELSE IF sin_port \in BoundPorts(k) THEN Outcome(socket(k), -1, TRUE)
     ELSE Outcome(listen(socket(k), LowestFree(k), sin_port),
                  LowestFree(k), FALSE)

LazyInitialize(k, srv, port) ==
  IF srv.sock_fd_ <= 0
    THEN LET r == BoundListeningSocket(k, srv.config_, port)
         IN IF r.thrown THEN Outcome(r.kernel, srv, TRUE)
            ELSE Outcome(r.kernel, [srv EXCEPT !.sock_fd_ = r.object], FALSE)
    ELSE Outcome(k, srv, FALSE)

\* AwaitIncomingConnection after LazyInitialize, once accept() has a
\* connection to return: object is the Transport returned.
AcceptConnection(k, srv) ==
  LET c == k.conns[Head(k.files[srv.sock_fd_].backlog)]
      result_config ==
        [srv.config_.transport_config_prototype EXCEPT
           !.remote_addr = AssignedInteger(s_addr(c.addr)),
           !.remote_port = ntohs(c.port)]
  IN IF FreeDescriptors(k) = {} THEN Outcome(k, <<>>, TRUE)
     ELSE Outcome(accept(k, srv.sock_fd_),
                  [Transport(result_config) EXCEPT !.sock_fd_ = LowestFree(k)],
                  FALSE)

\* GetPortNumber after LazyInitialize: getsockname()'s port.
SocketPort(k, srv) == ntohs(k.files[srv.sock_fd_].port)

(***************************************************************************)
(* The transport layer as a state machine.  Calls are made by threads; a   *)
(* thread is in no call, between ProcessIO's test of io_thread_id_ and     *)
(* what follows it, in ProcessIO's send loop waiting for the socket, or in *)
(* accept().                                                               *)
(***************************************************************************)
MaxThreads == 2

MaxTransports == 2

MaxSends == 2

MaxStarts == 2

Threads == 1 .. MaxThreads

Idle == [call |-> "", transport |-> 0, unset |-> FALSE]

InCall(call, t, unset) == [call |-> call, transport |-> t, unset |-> unset]

\* Nothing has been called yet.
NothingObserved ==
  [sent |-> <<>>, received |-> <<>>, closed |-> {}, thrown |-> {},
   ports |-> {}, started |-> <<>>, accepted |-> <<>>, destroyed |-> {}]

\* Config's default member initialisers: kClient, "0.0.0.0", 30303.
DefaultConfig == Config(kClient, <<48, 46, 48, 46, 48, 46, 48>>, 30303)

\* The configs clients are constructed from: the server's host and a port.
ClientConfigs == { Config(kClient, localhost, p) : p \in Ports }

\* The configs of the server: the port picked by the system (0) or fixed,
\* the prototype with either end.
ServerConfigs ==
  { ServerConfig(p, [DefaultConfig EXCEPT !.end = e]) :
      p \in {0, MaxPort}, e \in {kServer, kClient} }

\* The addresses clients connect from.
ClientAddresses == { <<127, 0, 0, 1>>, <<49, 0, 0, 1>> }

sequencer_vars == <<sessions, next_id, emitted, hist, steps, clients>>

NoSequencer ==
  /\ sessions = <<>>
  /\ next_id = FirstClientId
  /\ emitted = <<>>
  /\ hist = <<>>
  /\ steps = 0
  /\ clients = <<>>

Alive == { t \in DOMAIN transports : t \notin observed.destroyed }

\* The ports the system may pick for a socket bound to port 0.
FreePorts == { p \in Ports : htons(p) \notin BoundPorts(kernel) }

\* Transport's constructor.
Construct(config) ==
  /\ Len(transports) < MaxTransports
  /\ transports' = Append(transports, Transport(config))
  /\ UNCHANGED <<kernel, server, threads, observed>>
  /\ UNCHANGED <<sequencer_vars, critic_vars>>

\* Transport::Start on transport t; connect() does not return while the
\* listener's queue is full.
StartCall(t, addr) ==
  /\ t \in Alive
  /\ Len(observed.started) < MaxStarts
  /\ \E r \in {Start(kernel, transports[t],
                     [addr |-> addr,
                      port |-> htons(MaxPort + Len(kernel.conns) + 1)])} :
       /\ kernel' = r.kernel
       /\ transports' = [transports EXCEPT ![t] = r.object]
       /\ observed' = [observed EXCEPT
                         !.started = Append(@, [transport |-> t,
                                                thrown |-> r.thrown,
                                                fd |-> r.object.sock_fd_])]
  /\ UNCHANGED <<server, threads>>
  /\ UNCHANGED <<sequencer_vars, critic_vars>>

\* TransportServer::GetPortNumber.
GetPortNumber(port) ==
  /\ \E r \in {LazyInitialize(kernel, server, port)} :
       /\ kernel' = r.kernel
       /\ server' = r.object
       /\ observed' = IF r.thrown THEN observed
                      ELSE [observed EXCEPT
                              !.ports = @ \cup {SocketPort(r.kernel, r.object)}]
  /\ UNCHANGED <<transports, threads>>
  /\ UNCHANGED <<sequencer_vars, critic_vars>>

\* TransportServer::AwaitIncomingConnection up to accept().
AwaitIncomingConnection(th, port) ==
  /\ threads[th].call = ""
  /\ \E r \in {LazyInitialize(kernel, server, port)} :
       /\ kernel' = r.kernel
       /\ server' = r.object
       /\ threads' = [threads EXCEPT ![th] =
                        IF r.thrown THEN Idle
                        ELSE InCall("accept", 0, FALSE)]
  /\ UNCHANGED <<transports, observed>>
  /\ UNCHANGED <<sequencer_vars, critic_vars>>

\* accept() returns a connection, and AwaitIncomingConnection a Transport.
AwaitReturns(th) ==
  /\ threads[th].call = "accept"
  /\ kernel.files[server.sock_fd_].backlog # <<>>
  /\ \E r \in {AcceptConnection(kernel, server)} :
       /\ kernel' = r.kernel
       /\ transports' = IF r.thrown THEN transports
                        ELSE Append(transports, r.object)
       /\ observed' = IF r.thrown THEN observed
                      ELSE [observed EXCEPT
                              !.accepted = Append(@, Len(transports) + 1)]
       /\ threads' = [threads EXCEPT ![th] = Idle]
  /\ UNCHANGED server
  /\ UNCHANGED <<sequencer_vars, critic_vars>>

\* No byte is read from memory here: one content stands for all.
ServerInit ==
  /\ NoSequencer
  /\ kernel \in { k \in Kernels : k.heap = 0 /\ k.fresh = 0 }
  /\ server \in { TransportServer(c) : c \in ServerConfigs }
  /\ transports = <<>>
  /\ threads = [th \in Threads |-> Idle]
  /\ observed = NothingObserved
  /\ critic = <<>>

ServerNext ==
  \/ \E c \in ClientConfigs : Construct(c)
  \/ \E t \in Alive, a \in ClientAddresses : StartCall(t, a)
  \/ \E p \in FreePorts : GetPortNumber(p)
  \/ \E th \in Threads, p \in FreePorts : AwaitIncomingConnection(th, p)
  \/ \E th \in Threads : AwaitReturns(th)

ServerSpec == ServerInit /\ [][ServerNext]_vars

(***************************************************************************)
(* One connection and the datagrams on it.                                 *)
(***************************************************************************)
\* The payloads passed to Send: one of each length, the bytes 1, 2, ...
Datagrams == { [i \in 1 .. n |-> i] : n \in {0, MaxPayload} }

\* The processes with their standard input open.
Processes == { k \in Kernels : k.files[0].kind = "other" }

\* transport_test.cc, SendReceive: a server on a port picked by the system,
\* a client constructed with GetPortNumber's result and started, and the
\* Transport AwaitIncomingConnection returns for it.
Listener(k) ==
  LazyInitialize(k, TransportServer(ServerConfig(0, DefaultConfig)),
                 CHOOSE p \in Ports : \A q \in Ports : p <= q)

ClientEnd(k) ==
  Start(Listener(k).kernel,
        Transport(Config(kClient, localhost,
                         SocketPort(Listener(k).kernel, Listener(k).object))),
        [addr |-> <<127, 0, 0, 1>>, port |-> htons(MaxPort + 1)])

ServerEnd(k) == AcceptConnection(ClientEnd(k).kernel, Listener(k).object)

Connected(t) == t \in Alive /\ kernel.files[transports[t].sock_fd_].kind = "stream"

\* Whether a thread is inside ProcessIO on transport t, past its test.
Busy(t) ==
  \E th \in Threads : threads[th].transport = t /\ threads[th].call = "send"

InUse(t) == \E th \in Threads : threads[th].transport = t

\* No thread is between ProcessIO's test of io_thread_id_ and what follows
\* it: the model interleaves nothing but another such test there.
Quiet == \A th \in Threads : threads[th].call # "ProcessIO"

\* Transport::Send.  The datagrams of a run all go one way: the first Send
\* picks the end that sends.
SendCall(t, data) ==
  /\ Quiet
  /\ Connected(t)
  /\ ~Busy(t)
  /\ Len(observed.sent) < MaxSends
  /\ \A i \in DOMAIN observed.sent : observed.sent[i].transport = t
  /\ transports' = [transports EXCEPT ![t] = Send(@, data)]
  /\ observed' = [observed EXCEPT
                    !.sent = Append(@, [transport |-> t, data |-> data])]
  /\ UNCHANGED <<kernel, server, threads>>
  /\ UNCHANGED <<sequencer_vars, critic_vars>>

\* Transport::ReceiveAll.
ReceiveAllCall(t) ==
  /\ Quiet
  /\ Connected(t)
  /\ ~Busy(t)
  /\ \E r \in {ReceiveAll(transports[t])} :
       /\ transports' = [transports EXCEPT ![t] = r.transport]
       /\ observed' = [observed EXCEPT
                         !.received = @ \o [i \in 1 .. Len(r.result) |->
                                              [transport |-> t,
                                               buffer |-> r.result[i]]]]
  /\ UNCHANGED <<kernel, server, threads>>
  /\ UNCHANGED <<sequencer_vars, critic_vars>>

\* ProcessIO's first statement: the test of io_thread_id_.has_value().
ProcessIOEnter(th, t) ==
  /\ threads[th].call = ""
  /\ Connected(t)
  /\ threads' = [threads EXCEPT ![th] =
                   InCall("ProcessIO", t, transports[t].io_thread_id_ = <<>>)]
  /\ UNCHANGED <<kernel, server, transports, observed>>
  /\ UNCHANGED <<sequencer_vars, critic_vars>>

\* Faulty variant: ProcessIO without the test of the calling thread.
WrongThreadUnchecked(th) == FALSE

\* Whether the thread's test of io_thread_id_ ends in the exception.
WrongThread(th) ==
  /\ ~threads[th].unset
  /\ transports[threads[th].transport].io_thread_id_ # <<th>>

\* ProcessIO from the send loop on: the thread stays in the send loop while
\* send() would block, and else goes through the receive loop and returns;
\* observed.closed keeps the transports ProcessIO has returned false for.
Transfer(th, tr) ==
  \E s \in {SendLoop(kernel, tr, kernel.heap)} :
    IF s.blocked
      THEN /\ kernel' = s.kernel
           /\ transports' = [transports EXCEPT ![threads[th].transport] =
                               s.transport]
           /\ threads' = [threads EXCEPT ![th] =
                            InCall("send", threads[th].transport, FALSE)]
           /\ UNCHANGED observed
      ELSE \E r \in {ReceiveLoop(s.kernel, s.transport, kernel.fresh)} :
             /\ kernel' = r.kernel
             /\ transports' = [transports EXCEPT ![threads[th].transport] =
                                 r.transport]
             /\ threads' = [threads EXCEPT ![th] = Idle]
             /\ observed' = IF r.result THEN observed
                            ELSE [observed EXCEPT
                                    !.closed = @ \cup {threads[th].transport}]

\* ProcessIO after the test: the exception, or io_thread_id_ is set where
\* the test found it unset and the transfers begin.
ProcessIO(th) ==
  /\ threads[th].call = "ProcessIO"
  /\ IF WrongThread(th)
       THEN /\ threads' = [threads EXCEPT ![th] = Idle]
            /\ observed' = [observed EXCEPT
                              !.thrown = @ \cup {<<th, threads[th].transport>>}]
            /\ UNCHANGED <<kernel, transports>>
       ELSE Transfer(th,
                     TakeOutbound(
                       IF threads[th].unset
                         THEN [transports[threads[th].transport] EXCEPT
                                 !.io_thread_id_ = <<th>>]
                         ELSE transports[threads[th].transport]))
  /\ UNCHANGED server
  /\ UNCHANGED <<sequencer_vars, critic_vars>>

\* The send loop goes on once the socket takes bytes again.
ProcessIOResume(th) ==
  /\ Quiet
  /\ threads[th].call = "send"
  /\ Room(kernel, transports[threads[th].transport].sock_fd_) > 0
  /\ Transfer(th, transports[threads[th].transport])
  /\ UNCHANGED server
  /\ UNCHANGED <<sequencer_vars, critic_vars>>

\* The network delivers bytes that are under way.
Arrives(c, dir, n) ==
  /\ Quiet
  /\ kernel' = Arrive(kernel, c, dir, n)
  /\ UNCHANGED <<server, transports, threads, observed>>
  /\ UNCHANGED <<sequencer_vars, critic_vars>>

\* The network delivers the end of a stream.
FinArrives(c, dir) ==
  /\ Quiet
  /\ kernel.conns[c][dir].flight = <<>>
  /\ kernel.conns[c][dir].fin = "sent"
  /\ kernel' = ArriveFin(kernel, c, dir)
  /\ UNCHANGED <<server, transports, threads, observed>>
  /\ UNCHANGED <<sequencer_vars, critic_vars>>

\* The Transport is destroyed, by a caller that is in no call on it; one
\* end of the connection is in a run.
Destroy(t) ==
  /\ Quiet
  /\ t \in Alive
  /\ observed.destroyed = {}
  /\ ~InUse(t)
  /\ kernel' = DestroyTransport(kernel, transports[t])
  /\ observed' = [observed EXCEPT !.destroyed = @ \cup {t}]
  /\ UNCHANGED <<server, transports, threads>>
  /\ UNCHANGED <<sequencer_vars, critic_vars>>

TransportInit ==
  /\ NoSequencer
  /\ \E k \in Processes :
       /\ kernel = ServerEnd(k).kernel
       /\ server = Listener(k).object
       /\ transports = <<ClientEnd(k).object, ServerEnd(k).object>>
  /\ threads = [th \in Threads |-> Idle]
  /\ observed = NothingObserved
  /\ critic = <<>>

Directions == {"up", "down"}

TransportNext ==
  \/ \E t \in Alive, d \in Datagrams : SendCall(t, d)
  \/ \E t \in Alive : ReceiveAllCall(t)
  \/ \E t \in Alive : Quiet /\ ProcessIOEnter(t, t)
  \/ \E th \in Threads : ProcessIO(th)
  \/ \E th \in Threads : ProcessIOResume(th)
  \/ \E c \in DOMAIN kernel.conns, d \in Directions :
       \E n \in 1 .. Len(kernel.conns[c][d].flight) : Arrives(c, d, n)
  \/ \E c \in DOMAIN kernel.conns, d \in Directions : FinArrives(c, d)
  \/ \E t \in Alive : Destroy(t)

TransportSpec == TransportInit /\ [][TransportNext]_vars

(***************************************************************************)
(* The same connection with ProcessIO called from any thread: the test of  *)
(* io_thread_id_ and the assignment to it are two accesses with no         *)
(* synchronisation, so a second thread may make its test in between.  The  *)
(* datagrams are empty here.                                                *)
(***************************************************************************)
ThreadNext ==
  \/ \E t \in Alive : SendCall(t, <<>>)
  \/ \E t \in Alive : ReceiveAllCall(t)
  \/ \E th \in Threads, t \in Alive : ProcessIOEnter(th, t)
  \/ \E th \in Threads : ProcessIO(th)
  \/ \E th \in Threads : ProcessIOResume(th)
  \/ \E c \in DOMAIN kernel.conns, d \in Directions :
       \E n \in 1 .. Len(kernel.conns[c][d].flight) : Arrives(c, d, n)

ThreadSpec == TransportInit /\ [][ThreadNext]_vars


(***************************************************************************)
(* Properties of the transport.                                            *)
(***************************************************************************)
\* The other end of the connection of TransportInit.
Peer(t) == IF t = 1 THEN 2 ELSE 1

SentBy(t) == SelectSeq(observed.sent, LAMBDA e : e.transport = t)

ReceivedBy(t) == SelectSeq(observed.received, LAMBDA e : e.transport = t)

\* The datagrams passed to Send on t, and those ReceiveAll has returned on
\* t, each by its length (the header it travels with).
SentSizes(t) == [i \in 1 .. Len(SentBy(t)) |-> Len(SentBy(t)[i].data)]

ReceivedSizes(t) ==
  [i \in 1 .. Len(ReceivedBy(t)) |-> ReceivedBy(t)[i].buffer.payload_size]

IsPrefix(a, b) == Len(a) <= Len(b) /\ a = SubSeq(b, 1, Len(a))

\* C21: on a connection, the datagrams ReceiveAll has returned at one end
\* are, in their order, the first of the datagrams passed to Send at the
\* other end: after A, the next one returned is the one sent next after A.
TransportOrdering ==
  \A t \in DOMAIN transports : IsPrefix(ReceivedSizes(Peer(t)), SentSizes(t))


\* The payload of a received buffer: the payload_size bytes its storage
\* holds after the header.
PayloadOf(buffer) ==
  [j \in 1 .. buffer.payload_size |-> Cell(buffer.data, kHeaderSize + j)]

\* C22: the i-th datagram ReceiveAll has returned at one end has the length
\* of the i-th datagram passed to Send at the other end and, after its
\* header, the same bytes.
PayloadRoundTrip ==
  \A t \in DOMAIN transports :
    \A i \in 1 .. Min(Len(ReceivedBy(Peer(t))), Len(SentBy(t))) :
      /\ ReceivedBy(Peer(t))[i].buffer.payload_size = Len(SentBy(t)[i].data)
      /\ PayloadOf(ReceivedBy(Peer(t))[i].buffer) = SentBy(t)[i].data


\* The datagrams that have come out of the connection at transport t:
\* those ReceiveAll has returned and those waiting in its inbound queue.
Delivered(t) == Len(ReceivedBy(t)) + Len(transports[t].inbound_buffers_)

\* Both ends have called ProcessIO until it has nothing left to do for the
\* datagrams t has sent: t's outbound queue is empty and its bytes have all
\* reached the other end, no call is in progress, both ends are open, and
\* one more ProcessIO at the other end would receive nothing.
Settled(t) ==
  /\ observed.destroyed = {}
  /\ \A th \in Threads : threads[th] = Idle
  /\ transports[t].outbound_buffers_ = <<>>
  /\ transports[t].current_outgoing_message_ = <<>>
  /\ Stream(kernel, transports[t].sock_fd_, "Outgoing").flight = <<>>
  /\ LET r == ReceiveLoop(kernel, transports[Peer(t)], kernel.fresh)
     IN r.kernel = kernel /\ r.transport = transports[Peer(t)]

\* C23: no more datagrams come out of a connection than were passed to Send
\* at the other end, and once both ends have called ProcessIO until nothing
\* is left to do on an open connection, every datagram passed to Send has
\* come out, once.
ExactlyOnceDelivery ==
  \A t \in DOMAIN transports :
    /\ Delivered(Peer(t)) <= Len(SentBy(t))
    /\ Settled(t) => Delivered(Peer(t)) = Len(SentBy(t))

\* ReceiveAll returns the whole inbound queue and leaves it empty.
ReceiveAllDrains ==
  [][\A t \in DOMAIN transports :
       ReceiveAllCall(t) =>
         /\ transports'[t].inbound_buffers_ = <<>>
         /\ observed'.received =
              observed.received \o
                [i \in 1 .. Len(transports[t].inbound_buffers_) |->
                   [transport |-> t, buffer |-> transports[t].inbound_buffers_[i]]]
         /\ ReceiveAll(transports'[t]).result = <<>>]_vars


\* The bytes a direction of a connection holds, under way or arrived.
Carried(k, c, d) == Len(k.conns[c][d].flight) + Len(k.conns[c][d].arrived)

\* C24: Send changes the outbound queue of its transport and nothing else,
\* and puts the datagram, untransmitted, at the queue's tail; datagrams in
\* the outbound queue have no byte sent, and bytes enter a connection only
\* in a step of ProcessIO.
SendDeferred ==
  /\ [][\A t \in DOMAIN transports : \A d \in Datagrams :
          SendCall(t, d) =>
            /\ kernel' = kernel
            /\ threads' = threads
            /\ \A u \in DOMAIN transports \ {t} : transports'[u] = transports[u]
            /\ transports' = [transports EXCEPT ![t].outbound_buffers_ =
                                transports'[t].outbound_buffers_]
            /\ Len(transports'[t].outbound_buffers_) =
                 Len(transports[t].outbound_buffers_) + 1
            /\ SubSeq(transports'[t].outbound_buffers_, 1,
                      Len(transports[t].outbound_buffers_)) =
                 transports[t].outbound_buffers_
            /\ LET last == transports'[t].outbound_buffers_[
                             Len(transports'[t].outbound_buffers_)]
               IN /\ last.data = d
                  /\ last.payload_size = Len(d)
                  /\ last.bytes_sent = 0]_vars
  /\ [](\A t \in DOMAIN transports :
          \A i \in DOMAIN transports[t].outbound_buffers_ :
            transports[t].outbound_buffers_[i].bytes_sent = 0)
  /\ [][\A c \in DOMAIN kernel.conns : \A d \in Directions :
          Carried(kernel', c, d) > Carried(kernel, c, d) =>
            \E th \in Threads : threads[th].call \in {"ProcessIO", "send"}]_vars

\* Two datagrams of different lengths are queued, in the order they were
\* passed to Send, and no byte of the connection has been transmitted.
SendDeferredWitness ==
  \E t \in DOMAIN transports :
    /\ Len(observed.sent) = 2
    /\ Len(transports[t].outbound_buffers_) = 2
    /\ transports[t].outbound_buffers_[1].data = observed.sent[1].data
    /\ transports[t].outbound_buffers_[2].data = observed.sent[2].data
    /\ observed.sent[1].data # observed.sent[2].data
    /\ \A c \in DOMAIN kernel.conns : \A d \in Directions :
         Carried(kernel, c, d) = 0


\* A thread at ProcessIO's entry on a transport whose I/O thread is another.
Foreign(th) ==
  /\ threads[th].call = "ProcessIO"
  /\ transports[threads[th].transport].io_thread_id_ \notin {<<>>, <<th>>}

\* The call of th ends in the exception and has changed no byte and no
\* queue.
Refused(th) ==
  /\ kernel' = kernel
  /\ transports' = transports
  /\ <<th, threads[th].transport>> \in observed'.thrown
  /\ threads'[th] = Idle

RemoteClosed(t) ==
  /\ Peer(t) \in observed.destroyed
  /\ Connected(t)
  /\ Stream(kernel, transports[t].sock_fd_, "Incoming").fin = "arrived"
  /\ \A th \in Threads : threads[th] = Idle
  /\ transports[t].outbound_buffers_ = <<>>
  /\ transports[t].current_outgoing_message_ = <<>>

\* What ProcessIO on t would return now.
WouldReturn(t) == ReceiveLoop(kernel, transports[t], kernel.fresh).result

\* ProcessIO has returned false on t only if the remote end had closed.
FalseOnlyWhenClosed ==
  \A t \in observed.closed : Peer(t) \in observed.destroyed

\* While the remote end's close has not reached t, ProcessIO returns true,
\* whether or not there is something to read.
OpenReturnsTrue ==
  \A t \in DOMAIN transports :
    /\ Connected(t)
    /\ Stream(kernel, transports[t].sock_fd_, "Incoming").fin # "arrived"
    /\ \A th \in Threads : threads[th] = Idle
    /\ transports[t].current_outgoing_message_ = <<>>
    /\ transports[t].outbound_buffers_ = <<>>
    => WouldReturn(t)

\* C26: ProcessIO returns false exactly when the remote end has closed: it
\* has returned false only on a connection the remote end closed, it
\* returns true while no close has arrived, and it returns false once the
\* remote end's close has arrived.
CloseDetection ==
  /\ FalseOnlyWhenClosed
  /\ OpenReturnsTrue
  /\ \A t \in DOMAIN transports : RemoteClosed(t) => ~WouldReturn(t)

\* A false return leaves the inbound queue as it is but for the datagrams
\* the call itself completed, and ReceiveAll still returns them.
ClosedKeepsInbound ==
  [][\A th \in Threads :
       LET t == threads[th].transport
       IN ProcessIO(th) /\ t \in observed'.closed =>
            /\ IsPrefix(transports[t].inbound_buffers_,
                        transports'[t].inbound_buffers_)
            /\ ReceiveAll(transports'[t]).result = transports'[t].inbound_buffers_]_vars


(***************************************************************************)
(* Properties of the transport server.                                     *)
(***************************************************************************)
\* The connections waiting at the socket AwaitIncomingConnection accepts on.
Waiting == kernel.files[server.sock_fd_].backlog

\* The connections that server-end sockets of the process hold.
AcceptedConnections(k) ==
  { k.files[d].conn : d \in { e \in Descriptors :
                                k.files[e].kind = "stream" /\ k.files[e].side = "server" } }

\* C27: AwaitIncomingConnection has returned no more often than client
\* Starts have connected, and a call waits in accept() only when every
\* connection made by a client Start has been returned by a call: n Starts
\* make n calls return and leave a further call blocked.
ConnectionAcceptance ==
  /\ Len(observed.accepted) <= Len(kernel.conns)
  /\ \A th \in Threads :
       threads[th].call = "accept" /\ Waiting = <<>> =>
         Len(observed.accepted) = Len(kernel.conns)

\* Each return of AwaitIncomingConnection takes one connection a client
\* Start has made, one no earlier return has taken, and the Transport
\* returned holds it; without a waiting connection the call does not return.
AcceptTakesOne ==
  [][\A th \in Threads :
       AwaitReturns(th) /\ observed'.accepted # observed.accepted =>
         /\ Waiting # <<>>
         /\ Head(Waiting) \in DOMAIN kernel.conns
         /\ Head(Waiting) \notin AcceptedConnections(kernel)
         /\ Len(observed'.accepted) = Len(observed.accepted) + 1
         /\ LET tr == transports'[Len(transports')]
            IN /\ kernel'.files[tr.sock_fd_].kind = "stream"
               /\ kernel'.files[tr.sock_fd_].side = "server"
               /\ kernel'.files[tr.sock_fd_].conn = Head(Waiting)]_vars


\* The transports AwaitIncomingConnection has returned.
AcceptedTransports == { observed.accepted[i] : i \in DOMAIN observed.accepted }

\* Transport t holds a connection accepted by the server.
HoldsAccepted(t) ==
  /\ transports[t].sock_fd_ \in Descriptors
  /\ kernel.files[transports[t].sock_fd_].kind = "stream"
  /\ kernel.files[transports[t].sock_fd_].side = "server"

\* C28: a Transport returned by AwaitIncomingConnection has end kServer and
\* holds the accepted connection, whatever the prototype config carries,
\* and keeps holding it through calls of Start, which succeed.
ServerEndTransport ==
  /\ \A t \in AcceptedTransports :
       /\ transports[t].config_.end = kServer
       /\ HoldsAccepted(t)
  /\ \A i \in DOMAIN observed.started :
       observed.started[i].transport \in AcceptedTransports =>
         ~observed.started[i].thrown


\* The descriptors of the process that are sockets of some kind.
Sockets(k) ==
  { d \in Descriptors : k.files[d].kind \in {"socket", "listen", "stream"} }

ListeningSockets(k) == { d \in Descriptors : k.files[d].kind = "listen" }

\* C29: the server has no listening socket before its first GetPortNumber
\* or AwaitIncomingConnection, binds at most one in its life, every
\* GetPortNumber has returned the same port, and that port is the one of
\* the socket AwaitIncomingConnection accepts on.
TwoPhaseInitialization ==
  /\ server.sock_fd_ = -1 => ListeningSockets(kernel) = {}
  /\ Cardinality(ListeningSockets(kernel)) <= 1
  /\ Cardinality(observed.ports) <= 1
  /\ \A p \in observed.ports :
       /\ server.sock_fd_ \in ListeningSockets(kernel)
       /\ SocketPort(kernel, server) = p

\* The constructors open no socket: a process has none at the start,
\* constructing a Transport changes no descriptor, and only Start,
\* GetPortNumber and AwaitIncomingConnection add one.
ConstructorsOpenNothing ==
  /\ [][\A c \in ClientConfigs : Construct(c) =>
          /\ kernel' = kernel
          /\ transports'[Len(transports')].sock_fd_ = -1]_vars
  /\ [][Sockets(kernel') \ Sockets(kernel) # {} =>
          \/ \E t \in Alive, a \in ClientAddresses : StartCall(t, a)
          \/ \E p \in FreePorts : GetPortNumber(p)
          \/ \E th \in Threads, p \in FreePorts : AwaitIncomingConnection(th, p)
          \/ \E th \in Threads : AwaitReturns(th)]_vars
  /\ [][ListeningSockets(kernel') \ ListeningSockets(kernel) # {} =>
          \/ \E p \in FreePorts : GetPortNumber(p)
          \/ \E th \in Threads, p \in FreePorts : AwaitIncomingConnection(th, p)]_vars


(***************************************************************************)
(* The critic: Criticize on a Message, on an Event and on an EventList.    *)
(* SeqNum is a double; the values in use are written in halves, so that    *)
(* the smallest positive double has a place between 0 and the next value.  *)
(***************************************************************************)
MaxCriticSeq == 1

MaxRecipients == 2

MaxEvents == 2

\* The sequence numbers -1, 0, 1, ... in halves.
CriticSeqNums == { 2 * n : n \in -1 .. MaxCriticSeq }

\* std::numeric_limits<double>::min(): the smallest positive double.
numeric_limits_min == 1

RxInfo(receipient, receive_seq) ==
  [receipient |-> receipient, receive_seq |-> receive_seq]

\* struct Message of data_structures.h: one message, all its recipients.
CriticMessage(publisher, publish_seq, recipients) ==
  [publisher |-> publisher, publish_seq |-> publish_seq,
   recipients |-> recipients, payload |-> <<>>]

NoMessage == CriticMessage(0, 0, <<>>)

PublishEvent(message) ==
  [kind |-> "PublishEvent", message |-> message, recipient |-> 0, seq_num |-> 0]

ReceiveEvent(message, recipient) ==
  [kind |-> "ReceiveEvent", message |-> message, recipient |-> recipient,
   seq_num |-> 0]

SequenceEvent(seq_num) ==
  [kind |-> "SequenceEvent", message |-> NoMessage, recipient |-> 0,
   seq_num |-> seq_num]

\* fmt::format("{}_pub_at_{}", publisher, publish_seq): the text is given by
\* its two arguments.
MessageName(m) == <<m.publisher, m.publish_seq>>

\* fmt::format("{} noncausal message pub_seq {} rx_seq {}", ...).
NoncausalMessage(m, receipt) ==
  [text |-> "noncausal message", name |-> MessageName(m),
   seq |-> m.publish_seq, other |-> receipt.receive_seq]

\* fmt::format("Event {} after causal sequence {}", ...).
AfterCausal(m, last_causal_point) ==
  [text |-> "Event after causal sequence", name |-> MessageName(m),
   seq |-> last_causal_point, other |-> 0]

\* fmt::format("Sequence point {} after causal sequence {}", ...).
SequenceAfterCausal(seq_num, last_causal_point) ==
  [text |-> "Sequence point after causal sequence", name |-> <<>>,
   seq |-> seq_num, other |-> last_causal_point]

\* Faulty variant: a message is flagged only below its publish_seq.
RECURSIVE CriticizeRecipientsBelow(_, _, _)
CriticizeRecipientsBelow(opus, i, critique) ==
  IF i > Len(opus.recipients) THEN critique
  ELSE CriticizeRecipientsBelow(
         opus, i + 1,
         IF opus.recipients[i].receive_seq < opus.publish_seq
           THEN Append(critique, NoncausalMessage(opus, opus.recipients[i]))
           ELSE critique)

\* The loop of Criticize(const Message&) from the i-th recipient entry on.
RECURSIVE CriticizeRecipients(_, _, _)
CriticizeRecipients(opus, i, critique) ==
  IF i > Len(opus.recipients) THEN critique
  ELSE CriticizeRecipients(
         opus, i + 1,
         IF opus.recipients[i].receive_seq <= opus.publish_seq
           THEN Append(critique, NoncausalMessage(opus, opus.recipients[i]))
           ELSE critique)

\* Criticize(const Message&, Critique*).
CriticizeMessage(opus, critique) == CriticizeRecipients(opus, 1, critique)

\* Criticize(const Event&, Critique*).
CriticizeEvent(opus, critique) ==
  IF opus.kind \in {"PublishEvent", "ReceiveEvent"}
    THEN CriticizeMessage(opus.message, critique)
    ELSE critique

\* The first loop of Criticize(const EventList&): every event is criticized.
RECURSIVE CriticizeEach(_, _, _)
CriticizeEach(opus, i, critique) ==
  IF i > Len(opus) THEN critique
  ELSE CriticizeEach(opus, i + 1, CriticizeEvent(opus[i], critique))

\* The ReceiveEvent case of the second loop, from the i-th recipient on.
RECURSIVE CausalRecipients(_, _, _, _)
CausalRecipients(m, i, last_causal_point, critique) ==
  IF i > Len(m.recipients) THEN critique
  ELSE CausalRecipients(
         m, i + 1, last_causal_point,
         IF last_causal_point >= m.recipients[i].receive_seq
           THEN Append(critique, AfterCausal(m, last_causal_point))
           ELSE critique)

\* The second loop of Criticize(const EventList&) from the i-th event on.
RECURSIVE CausalPoints(_, _, _, _)
CausalPoints(opus, i, last_causal_point, critique) ==
  IF i > Len(opus) THEN critique
  ELSE CASE opus[i].kind = "PublishEvent" ->
              CausalPoints(
                opus, i + 1, opus[i].message.publish_seq,
                IF last_causal_point >= opus[i].message.publish_seq
                  THEN Append(critique,
                              AfterCausal(opus[i].message, last_causal_point))
                  ELSE critique)
         [] opus[i].kind = "ReceiveEvent" ->
              CausalPoints(
                opus, i + 1, last_causal_point,
                CausalRecipients(opus[i].message, 1, last_causal_point,
                                 critique))
         [] OTHER ->
              CausalPoints(
                opus, i + 1, opus[i].seq_num,
                IF last_causal_point >= opus[i].seq_num
                  THEN Append(critique,
                              SequenceAfterCausal(opus[i].seq_num,
                                                  last_causal_point))
                  ELSE critique)

\* Criticize(const EventList&, Critique*).
CriticizeEventList(opus, critique) ==
  CausalPoints(opus, 1, numeric_limits_min, CriticizeEach(opus, 1, critique))

\* The values Criticize is called with.
RECURSIVE UpTo(_, _)
UpTo(S, n) ==
  IF n = 0 THEN {<<>>}
  ELSE UpTo(S, n - 1) \cup
       { Append(s, x) : s \in { q \in UpTo(S, n - 1) : Len(q) = n - 1 }, x \in S }

CriticRecipients ==
  UpTo({ RxInfo(2, r) : r \in CriticSeqNums }, MaxRecipients)

CriticMessages ==
  { CriticMessage(1, p, rs) : p \in CriticSeqNums, rs \in CriticRecipients }

CriticEvents ==
  { PublishEvent(m) : m \in CriticMessages }
    \cup { ReceiveEvent(m, 2) : m \in CriticMessages }
    \cup { SequenceEvent(s) : s \in CriticSeqNums }

\* A critique as the caller passes it in: empty, or holding a diagnostic.
Critiques == { <<>>, <<SequenceAfterCausal(0, 0)>> }

\* A call of Criticize about to be made.
CriticCall(overload, opus, critique) ==
  [overload |-> overload, opus |-> opus, before |-> critique,
   critique |-> critique, done |-> FALSE]

CriticInit ==
  /\ NoSequencer
  /\ kernel = <<>>
  /\ server = <<>>
  /\ transports = <<>>
  /\ threads = <<>>
  /\ observed = <<>>
  /\ critic \in
       { CriticCall("Message", <<PublishEvent(m)>>, c) :
           m \in CriticMessages, c \in Critiques }
         \cup { CriticCall("Event", <<e>>, c) : e \in CriticEvents, c \in Critiques }
         \cup { CriticCall("EventList", l, c) :
                  l \in UpTo(CriticEvents, MaxEvents), c \in Critiques }

\* The call returns: the critique holds what Criticize has pushed onto it.
Criticized(result) ==
  /\ ~critic.done
  /\ critic' = [critic EXCEPT !.critique = result, !.done = TRUE]
  /\ UNCHANGED <<sequencer_vars, transport_vars>>

CriticNext ==
  \/ /\ critic.overload = "Message"
     /\ Criticized(CriticizeMessage(critic.opus[1].message, critic.critique))
  \/ /\ critic.overload = "Event"
     /\ Criticized(CriticizeEvent(critic.opus[1], critic.critique))
  \/ /\ critic.overload = "EventList"
     /\ Criticized(CriticizeEventList(critic.opus, critic.critique))

CriticSpec == CriticInit /\ [][CriticNext]_vars


(***************************************************************************)
(* Properties of the critic.                                               *)
(***************************************************************************)
\* What the call has pushed onto the critique it was given.
Added == SubSeq(critic.critique, Len(critic.before) + 1, Len(critic.critique))

\* One diagnostic for each recipient entry of m whose receive_seq is at
\* most m's publish_seq, in the order of the entries.
NoncausalOf(m) ==
  LET flagged == SelectSeq(m.recipients,
                           LAMBDA r : r.receive_seq <= m.publish_seq)
  IN [i \in 1 .. Len(flagged) |-> NoncausalMessage(m, flagged[i])]

\* The same for the messages of the PublishEvents and ReceiveEvents of a
\* list, in the order of the events.
RECURSIVE NoncausalOfAll(_)
NoncausalOfAll(events) ==
  IF events = <<>> THEN <<>>
  ELSE (IF Head(events).kind \in {"PublishEvent", "ReceiveEvent"}
          THEN NoncausalOf(Head(events).message)
          ELSE <<>>) \o NoncausalOfAll(Tail(events))

NoncausalAdded == SelectSeq(Added, LAMBDA d : d.text = "noncausal message")

\* C30: Criticize on a Message adds one diagnostic for each recipient entry
\* with receive_seq <= publish_seq and nothing else, so that the message is
\* flagged iff some recipient's receive_seq is not above its publish_seq;
\* on an Event and on an EventList the same is added for the message of
\* every PublishEvent and ReceiveEvent, and no such diagnostic otherwise.
NoncausalMessages ==
  critic # <<>> /\ critic.done =>
    /\ IsPrefix(critic.before, critic.critique)
    /\ critic.overload = "Message" =>
         /\ Added = NoncausalOf(critic.opus[1].message)
         /\ Added # <<>> <=>
              \E i \in DOMAIN critic.opus[1].message.recipients :
                ~(critic.opus[1].message.recipients[i].receive_seq
                    > critic.opus[1].message.publish_seq)
    /\ critic.overload = "Event" => Added = NoncausalOfAll(critic.opus)
    /\ critic.overload = "EventList" =>
         /\ NoncausalAdded = NoncausalOfAll(critic.opus)
         /\ IsPrefix(NoncausalAdded, Added)

\* Criticize has been called on a list of a PublishEvent and a ReceiveEvent
\* and on a critique that held a diagnostic already; it has added a
\* diagnostic for a recipient at the publish_seq and one for a recipient
\* below it, and none for a recipient above it.
NoncausalMessagesWitness ==
  /\ critic # <<>>
  /\ critic.done
  /\ critic.overload = "EventList"
  /\ critic.before # <<>>
  /\ Len(critic.opus) = 2
  /\ critic.opus[1].kind = "PublishEvent"
  /\ critic.opus[2].kind = "ReceiveEvent"
  /\ \E d \in { NoncausalAdded[i] : i \in DOMAIN NoncausalAdded } :
       d.other = d.seq
  /\ \E d \in { NoncausalAdded[i] : i \in DOMAIN NoncausalAdded } :
       d.other < d.seq
  /\ \E i \in DOMAIN critic.opus[2].message.recipients :
       critic.opus[2].message.recipients[i].receive_seq
         > critic.opus[2].message.publish_seq
  /\ Len(NoncausalAdded) = 2


(***************************************************************************)
(* The causal-point cursor of Criticize(const EventList&).                 *)
(***************************************************************************)
\* The value of last_causal_point once the second loop of
\* Criticize(const EventList&) has visited the first i events: the
\* PublishEvent and SequenceEvent cases assign it, the ReceiveEvent case
\* does not.
RECURSIVE LastCausalPoint(_, _)
LastCausalPoint(opus, i) ==
  IF i = 0 THEN numeric_limits_min
  ELSE CASE opus[i].kind = "PublishEvent" -> opus[i].message.publish_seq
         [] opus[i].kind = "ReceiveEvent" -> LastCausalPoint(opus, i - 1)
         [] OTHER -> opus[i].seq_num

\* The sequence numbers an event carries, in the order the second loop
\* compares them with the cursor.
OwnSeqs(event) ==
  CASE event.kind = "PublishEvent" -> <<event.message.publish_seq>>
    [] event.kind = "ReceiveEvent" ->
         [i \in DOMAIN event.message.recipients |->
            event.message.recipients[i].receive_seq]
    [] OTHER -> <<event.seq_num>>

\* The diagnostic of the second loop for an event and a cursor.
CausalDiagnostic(event, last_causal_point) ==
  IF event.kind = "SequenceEvent"
    THEN SequenceAfterCausal(event.seq_num, last_causal_point)
    ELSE AfterCausal(event.message, last_causal_point)

\* One diagnostic for each sequence number of the i-th event that is at
\* most the cursor the loop holds when it reaches the event.
CausalOf(opus, i) ==
  LET cursor  == LastCausalPoint(opus, i - 1)
      flagged == SelectSeq(OwnSeqs(opus[i]), LAMBDA s : s <= cursor)
  IN [k \in 1 .. Len(flagged) |-> CausalDiagnostic(opus[i], cursor)]

RECURSIVE CausalOfAll(_, _)
CausalOfAll(opus, i) ==
  IF i > Len(opus) THEN <<>>
  ELSE CausalOf(opus, i) \o CausalOfAll(opus, i + 1)

CausalAdded == SelectSeq(Added, LAMBDA d : d.text # "noncausal message")

\* Criticize on an EventList adds, after the noncausal-message diagnostics,
\* one diagnostic for every sequence number of an event that is at most the
\* cursor, and nothing else.
CausalFlagged ==
  critic # <<>> /\ critic.done /\ critic.overload = "EventList" =>
    /\ CausalAdded = CausalOfAll(critic.opus, 1)
    /\ Added = NoncausalAdded \o CausalAdded

\* After the i-th event the cursor is a sequence number of that event.
CursorAtOwnSeq(opus, i) ==
  OwnSeqs(opus[i]) # <<>> =>
    \E k \in DOMAIN OwnSeqs(opus[i]) :
      LastCausalPoint(opus, i) = OwnSeqs(opus[i])[k]

\* C31: Criticize on an EventList adds a diagnostic for every event whose
\* sequence number (a PublishEvent's publish_seq, a recipient's receive_seq
\* of a ReceiveEvent's message, a SequenceEvent's seq_num) is at most the
\* running causal-point cursor, and after each event of any of the three
\* kinds the cursor is that event's own sequence number.
CausalCursor ==
  critic # <<>> /\ critic.done /\ critic.overload = "EventList" =>
    /\ CausalAdded = CausalOfAll(critic.opus, 1)
    /\ \A i \in DOMAIN critic.opus : CursorAtOwnSeq(critic.opus, i)

\* The cursor after a PublishEvent and after a SequenceEvent is the
\* event's sequence number.
CursorAtPublishAndSequence ==
  critic # <<>> /\ critic.done /\ critic.overload = "EventList" =>
    \A i \in DOMAIN critic.opus :
      critic.opus[i].kind # "ReceiveEvent" => CursorAtOwnSeq(critic.opus, i)


(***************************************************************************)
(* The value of a grant.                                                   *)
(***************************************************************************)
\* The last step issued a grant to s and left its request pending: the
\* grant was partial.
PartialGrant(s) ==
  /\ GrantsTo(s) # {}
  /\ Live(sessions, s)
  /\ sessions[s].pending_grant # NoSeq

\* The step handles no frame of s: a connection is accepted, or the
\* subscriptions, the state or the min_send_seq of another session change,
\* which only that session's own frame or closure does.
OthersStep(s) ==
  /\ sessions'[s].state = sessions[s].state
  /\ sessions'[s].subscriptions = sessions[s].subscriptions
  /\ sessions'[s].min_send_seq = sessions[s].min_send_seq
  /\ sessions'[s].pending_grant = sessions[s].pending_grant
  /\ \/ Len(sessions') > Len(sessions)
     \/ \E u \in Slots(sessions) \ {s} :
          \/ sessions'[u].state # sessions[u].state
          \/ sessions'[u].subscriptions # sessions[u].subscriptions
          \/ sessions'[u].min_send_seq # sessions[u].min_send_seq

\* A grant g issued to a live session is min(T, G): the request is cleared
\* and g is at most G, or the request T stays, above g, and g is G; the
\* session's min_recv_seq is g.
GrantIsMin(ss, s, g) ==
  /\ ss[s].min_recv_seq = g
  /\ g <= GlobalFrontier(ss)
  /\ \/ ss[s].pending_grant = NoSeq
     \/ /\ ss[s].pending_grant > g
        /\ g = GlobalFrontier(ss)

\* The first two parts of C32, in every state: every grant just issued to a
\* live session is min(T, G), and the request is cleared iff the grant
\* reached it.
GrantValueRule ==
  \A s \in LiveSet(sessions) : \A i \in GrantsTo(s) :
    GrantIsMin(sessions, s, emitted[s][i].seq)

\* C32: whenever the sequencer issues a grant to a session s with
\* pending_grant = T, the granted value is min(T, G) for the current G,
\* pending_grant is cleared iff the granted value equals T and otherwise
\* stays T, and a partial value is not granted to s again while G is
\* unchanged (taken here over the next step, when it handles no frame
\* of s).
GrantValueOnce ==
  [][\A s \in Slots(sessions) :
       /\ Live(sessions', s) =>
            \A i \in 1 .. Len(emitted'[s]) :
              IsGrant(emitted'[s][i]) =>
                GrantIsMin(sessions', s, emitted'[s][i].seq)
       /\ ( /\ PartialGrant(s)
            /\ OthersStep(s)
            /\ GlobalFrontier(sessions') = GlobalFrontier(sessions) )
          => \A i \in 1 .. Len(emitted'[s]) :
               IsGrant(emitted'[s][i]) =>
                 \A j \in GrantsTo(s) : emitted'[s][i].seq # emitted[s][j].seq
    ]_vars


(***************************************************************************)
(* The sequencer in debug mode: every handled event is followed by a call  *)
(* of the critic on the EventList of the run so far (publishes,            *)
(* deliveries, grants, in execution order).                                *)
(***************************************************************************)
\* Inbound events handled in one run of the sequencer in debug mode.
MaxOracleSteps == 6

\* A sequence number of the sequencer among the critic's SeqNums.
AsSeqNum(seq) == 2 * seq

\* One RxInfo for each recipient of a message, in ascending session order.
RECURSIVE RxInfos(_, _, _, _)
RxInfos(ss, rc, u, receive_seq) ==
  IF u > Len(ss) THEN <<>>
  ELSE (IF u \in rc THEN <<RxInfo(ss[u].id, AsSeqNum(receive_seq))>>
                      ELSE <<>>)
         \o RxInfos(ss, rc, u + 1, receive_seq)

\* The PublishEvent of a Publish frame f of session s that was accepted
\* (a: the result of the frame's transition).
TracePublish(ss, s, f, a) ==
  IF f.type = "Publish" /\ Live(ss, s) /\ Live(a.ss, s)
  THEN LET s1 == [ss EXCEPT ![s].min_send_seq = f.publish_seq]
           m  == Message(ss[s].id, f.publish_seq, f.receive_seq,
                         f.channel, f.payload)
       IN <<PublishEvent(
              CriticMessage(ss[s].id, AsSeqNum(f.publish_seq),
                            RxInfos(s1, Recipients(s1, m), 1, f.receive_seq)))>>
  ELSE <<>>

\* The events of the frames emitted to one session: a ReceiveEvent for a
\* Deliver, a SequenceEvent for an AdvanceGrant.
RECURSIVE TraceFrames(_, _, _)
TraceFrames(id, frames, i) ==
  IF i > Len(frames) THEN <<>>
  ELSE (CASE IsDeliver(frames[i]) ->
               <<ReceiveEvent(
                   CriticMessage(frames[i].msg.publisher,
                                 AsSeqNum(frames[i].msg.publish_seq),
                                 <<RxInfo(id, AsSeqNum(
                                                frames[i].msg.receive_seq))>>),
                   id)>>
          [] IsGrant(frames[i]) -> <<SequenceEvent(AsSeqNum(frames[i].seq))>>
          [] OTHER -> <<>>)
         \o TraceFrames(id, frames, i + 1)

\* The events of one arbitration, sessions in ascending ClientId order.
RECURSIVE TraceArbitration(_, _)
TraceArbitration(b, u) ==
  IF u > Len(b) THEN <<>>
  ELSE TraceFrames(b[u].sess.id, b[u].out, 1) \o TraceArbitration(b, u + 1)

\* Criticize(const EventList&) called on the run so far with an empty
\* critique.
OracleCall(opus) ==
  [CriticCall("EventList", opus, <<>>) EXCEPT
     !.critique = CriticizeEventList(opus, <<>>), !.done = TRUE]

OracleInit ==
  /\ NoSequencer
  /\ kernel = <<>>
  /\ server = <<>>
  /\ transports = <<>>
  /\ threads = <<>>
  /\ observed = <<>>
  /\ critic = OracleCall(<<>>)

OracleTick ==
  /\ steps < MaxOracleSteps
  /\ steps' = steps + 1
  /\ UNCHANGED <<clients, transport_vars>>

OracleCommit(h, a, events) ==
  \E b \in {Arbitrate(a.ss)} :
    /\ CommitSessions(h, a, b)
    /\ critic' = OracleCall(critic.opus \o events \o TraceArbitration(b, 1))

\* The listener hands a new byte channel to the sequencer.
OracleConnect ==
  /\ OracleTick
  /\ Len(sessions) < MaxConn
  /\ OracleCommit(Append(hist, NewHist),
                  Accept(Append(sessions, NewSession),
                         NoOut(Append(sessions, NewSession)), next_id),
                  <<>>)

OracleFrames ==
  {Hello}
    \cup { Subscribe(sel, eff) : sel \in Selectors, eff \in SeqNums }
    \cup { Publish(pseq, rseq, ch, pl) :
             pseq \in SeqNums, rseq \in SeqNums, ch \in Channels,
             pl \in Payloads }
    \cup { ClearToAdvance(T) : T \in SeqNums }
    \cup { RequestAdvance(T) : T \in SeqNums }

\* HandleIO for one frame drained from session s.
OracleHandle(s) ==
  /\ OracleTick
  /\ \E f \in OracleFrames :
       \E a \in {Apply(sessions, s, f, next_id)} :
         OracleCommit(hist, a, TracePublish(sessions, s, f, a))

OracleNext ==
  \/ OracleConnect
  \/ \E s \in Slots(sessions) : OracleHandle(s)

OracleSpec == OracleInit /\ [][OracleNext]_vars

\* No session has met a fatal error: the clients have kept every rule.
AllLegal == \A s \in Slots(sessions) : sessions[s].error = "None"

\* C33: for every event trace the sequencer can emit under the rules, equal
\* sequence numbers included, Criticize on the corresponding EventList
\* returns an empty critique.
CriticAsOracle == AllLegal => critic.critique = <<>>


(***************************************************************************)
(* The critic at the start of a run.                                       *)
(***************************************************************************)
\* The sequence numbers of the PublishEvents and SequenceEvents of a list,
\* in the order of the events.
RECURSIVE CausalSeqs(_)
CausalSeqs(events) ==
  IF events = <<>> THEN <<>>
  ELSE (IF Head(events).kind = "ReceiveEvent" THEN <<>>
        ELSE OwnSeqs(Head(events))) \o CausalSeqs(Tail(events))

StrictlyIncreasing(q) == \A i \in 1 .. Len(q) - 1 : q[i] < q[i + 1]

\* Every message of the list has receive_seq > publish_seq at every
\* recipient.
AllCausal(events) == NoncausalOfAll(events) = <<>>

\* An EventList as a run from the start gives it: the PublishEvents and
\* SequenceEvents strictly increasing from kFirstSeqNum, every message
\* causal.
FromFirstSeqNum(events) ==
  /\ CausalSeqs(events) # <<>>
  /\ CausalSeqs(events)[1] = AsSeqNum(kFirstSeqNum)
  /\ StrictlyIncreasing(CausalSeqs(events))
  /\ AllCausal(events)

\* C36: for an EventList whose Publish and Sequence events carry strictly
\* increasing sequence numbers beginning at kFirstSeqNum, and whose
\* messages all have receive_seq > publish_seq, Criticize returns an empty
\* critique; in particular a first event at kFirstSeqNum is not flagged.
NoFalsePositive ==
  ( /\ critic # <<>>
    /\ critic.done
    /\ critic.overload = "EventList"
    /\ FromFirstSeqNum(critic.opus) ) => Added = <<>>

\* On such a list without ReceiveEvents, Criticize flags the first event,
\* against the initial cursor, and no other.
OnlyFirstFlagged ==
  ( /\ critic # <<>>
    /\ critic.done
    /\ critic.overload = "EventList"
    /\ FromFirstSeqNum(critic.opus)
    /\ \A i \in DOMAIN critic.opus : critic.opus[i].kind # "ReceiveEvent" )
  => Added = <<CausalDiagnostic(critic.opus[1], numeric_limits_min)>>


(***************************************************************************)
(* ProcessIO and a socket that takes no more bytes.                        *)
(***************************************************************************)
\* Thread th is inside ProcessIO's send loop, a datagram partly sent, and
\* send() would block: the socket takes no byte until the peer reads.
Spinning(th) ==
  /\ threads[th].call = "send"
  /\ Room(kernel, transports[threads[th].transport].sock_fd_) = 0

\* C34: every ProcessIO call returns once no further progress is possible
\* without blocking, also when the peer is not reading and a datagram has
\* been only partly sent: no call is left inside ProcessIO waiting for the
\* socket to take bytes.
ProcessIOReturns == \A th \in Threads : ~Spinning(th)

\* A call in that position leaves it only once the socket has room again,
\* that is, after the peer has read.
SpinsUntilRoom ==
  [][\A th \in Threads :
       threads[th].call = "send" /\ threads'[th] # threads[th] =>
         Room(kernel, transports[threads[th].transport].sock_fd_) > 0]_vars

\* A call that is not held up in the send loop goes through the receive
\* loop and returns in the same step, whatever is there to receive.
ReturnsWhenSent ==
  [][\A th \in Threads :
       threads[th].call = "ProcessIO" /\ threads'[th] # threads[th] =>
         threads'[th].call \in {"", "send"}]_vars


(***************************************************************************)
(* Datagrams received over several ProcessIO calls.                        *)
(***************************************************************************)
\* The buffers that have come out of the connection at t, in order: those
\* ReceiveAll has returned, then the inbound queue.
DeliveredBuffers(t) ==
  [i \in 1 .. Len(ReceivedBy(t)) |-> ReceivedBy(t)[i].buffer]
    \o transports[t].inbound_buffers_

RECURSIVE SumReceived(_)
SumReceived(buffers) ==
  IF buffers = <<>> THEN 0
  ELSE Head(buffers).bytes_received + SumReceived(Tail(buffers))

\* The bytes recv() has given to t.
Taken(t) ==
  SumReceived(DeliveredBuffers(t))
    + SumReceived(transports[t].current_incoming_message_)

\* The bytes the first n datagrams passed to Send on t travel as.
RECURSIVE WireLength(_, _)
WireLength(t, n) ==
  IF n = 0 THEN 0
  ELSE WireLength(t, n - 1) + kHeaderSize + Len(SentBy(t)[n].data)

\* The datagrams sent by the peer of t whose last byte t has received.
Completed(t) ==
  Cardinality({ n \in 1 .. Len(SentBy(Peer(t))) :
                  WireLength(Peer(t), n) <= Taken(t) })

\* C35: a datagram whose bytes are received over several ProcessIO calls is
\* appended to the inbound queue once, at the call in which its last byte
\* (4 header bytes plus payload_size payload bytes) is received: after
\* every call the datagrams that have come out are those received to their
\* last byte; every buffer that has come out is complete and holds the
\* bytes of one datagram, and the partly received current message is not
\* among them.
Reassembly ==
  \A t \in DOMAIN transports :
    /\ Delivered(t) = Completed(t)
    /\ \A i \in 1 .. Min(Delivered(t), Len(SentBy(Peer(t)))) :
         /\ RxDone(DeliveredBuffers(t)[i])
         /\ DeliveredBuffers(t)[i].bytes_received =
              kHeaderSize + Len(SentBy(Peer(t))[i].data)

\* Every buffer that has come out satisfies done(), by the payload_size it
\* carries, and ReceiveAll leaves the current incoming message where it is.
OnlyDoneBuffers ==
  /\ [](\A t \in DOMAIN transports :
          \A i \in DOMAIN DeliveredBuffers(t) : RxDone(DeliveredBuffers(t)[i]))
  /\ [][\A t \in DOMAIN transports :
          ReceiveAllCall(t) =>
            transports'[t].current_incoming_message_ =
              transports[t].current_incoming_message_]_vars


(***************************************************************************)
(* Transports and the sockets they hold.  A client is connected and waits  *)
(* in the listener's queue; AwaitIncomingConnection returns a Transport    *)
(* for it, Transports are moved and destroyed.                             *)
(***************************************************************************)
\* Transport objects constructed in one run, moved-from ones included.
MaxObjects == 4

\* Transport(Transport&&) = default: the new object, member by member.  An
\* int and a const member are copied; an optional, a unique_ptr and a
\* container give what they hold.
MoveConstructed(tr) ==
  [config_ |-> tr.config_,
   sock_fd_ |-> tr.sock_fd_,
   io_thread_id_ |-> tr.io_thread_id_,
   inbound_buffers_ |-> tr.inbound_buffers_,
   current_incoming_message_ |-> tr.current_incoming_message_,
   outbound_buffers_ |-> tr.outbound_buffers_,
   current_outgoing_message_ |-> tr.current_outgoing_message_]

\* The object moved from: its unique_ptrs are null and its containers
\* empty; config_, sock_fd_ and io_thread_id_ are as they were.
MovedFrom(tr) ==
  [tr EXCEPT !.inbound_buffers_ = <<>>,
             !.current_incoming_message_ = <<>>,
             !.outbound_buffers_ = <<>>,
             !.current_outgoing_message_ = <<>>]

OwnershipInit ==
  /\ NoSequencer
  /\ \E k \in Processes :
       /\ kernel = ClientEnd(k).kernel
       /\ server = Listener(k).object
       /\ transports = <<ClientEnd(k).object>>
  /\ threads = [th \in Threads |-> Idle]
  /\ observed = NothingObserved
  /\ critic = <<>>

\* AwaitIncomingConnection from accept() on.  `return result;` names a
\* local: the build may construct it in place of the returned object, or
\* move it there and destroy it.
ReturnTransport(elided) ==
  /\ kernel.files[server.sock_fd_].backlog # <<>>
  /\ Len(transports) < MaxObjects
  /\ \E r \in {AcceptConnection(kernel, server)} :
       /\ ~r.thrown
       /\ kernel' = IF elided THEN r.kernel
                    ELSE DestroyTransport(r.kernel, MovedFrom(r.object))
       /\ transports' = Append(transports,
                               IF elided THEN r.object
                               ELSE MoveConstructed(r.object))
       /\ observed' = [observed EXCEPT
                         !.accepted = Append(@, Len(transports) + 1)]
  /\ UNCHANGED <<server, threads>>
  /\ UNCHANGED <<sequencer_vars, critic_vars>>

\* Transport b(std::move(a)) for the object a = transports[t].
MoveCall(t) ==
  /\ t \in Alive
  /\ Len(transports) < MaxObjects
  /\ transports' = Append([transports EXCEPT ![t] = MovedFrom(@)],
                          MoveConstructed(transports[t]))
  /\ UNCHANGED <<kernel, server, threads, observed>>
  /\ UNCHANGED <<sequencer_vars, critic_vars>>

\* Transport::~Transport for the object transports[t].
DestroyCall(t) ==
  /\ t \in Alive
  /\ kernel' = DestroyTransport(kernel, transports[t])
  /\ observed' = [observed EXCEPT !.destroyed = @ \cup {t}]
  /\ UNCHANGED <<server, transports, threads>>
  /\ UNCHANGED <<sequencer_vars, critic_vars>>

OwnershipNext ==
  \/ \E elided \in BOOLEAN : ReturnTransport(elided)
  \/ \E t \in Alive : MoveCall(t)
  \/ \E t \in Alive : DestroyCall(t)
  \/ \E t \in Alive, d \in Datagrams : SendCall(t, d)

OwnershipSpec == OwnershipInit /\ [][OwnershipNext]_vars

\* The socket the object holds is an open socket of a connection.
HoldsOpenSocket(k, tr) ==
  tr.sock_fd_ >= 0 /\ k.files[tr.sock_fd_].kind = "stream"

\* C37: every socket opened by Start or accepted by
\* AwaitIncomingConnection is closed exactly once, by the destructor of the
\* one Transport that owns it, and moving a Transport transfers ownership:
\* the Transport AwaitIncomingConnection returns holds the accepted socket,
\* open; a destructor closes a socket that is open, and no socket that
\* another Transport, not destroyed, holds.
SocketOwnership ==
  [][\A t \in DOMAIN transports' :
       /\ t \notin DOMAIN transports /\ observed'.accepted # observed.accepted
            => HoldsOpenSocket(kernel', transports'[t])
       /\ t \in Alive /\ t \notin Alive' /\ transports[t].sock_fd_ >= 0
            => /\ HoldsOpenSocket(kernel, transports[t])
               /\ \A u \in Alive' :
                    transports'[u].sock_fd_ # transports[t].sock_fd_]_vars


(***************************************************************************)
(* The size limits of Transport::Config: mtu and the two queue sizes.      *)
(***************************************************************************)
\* The limits the two ends are configured with: just below what the callers
\* of a run send, and at it.
Mtus == {MaxPayload - 1, MaxPayload}

QueueSizes == {MaxSends - 1, MaxSends}

\* A Config whose limits the caller has set.
Limited(config, mtu, size) ==
  [config EXCEPT !.mtu = mtu,
                 !.max_inbound_queue_size = size,
                 !.max_outbound_queue_size = size]

\* The connected pair of transport_test.cc, both ends and the server's
\* prototype constructed with limits of the caller's.
LimitsInit ==
  /\ NoSequencer
  /\ \E k \in Processes, mtu \in Mtus, size \in QueueSizes :
       /\ kernel = ServerEnd(k).kernel
       /\ server = [Listener(k).object EXCEPT
                      !.config_.transport_config_prototype =
                        Limited(@, mtu, size)]
       /\ transports =
            <<[ClientEnd(k).object EXCEPT !.config_ = Limited(@, mtu, size)],
              [ServerEnd(k).object EXCEPT !.config_ = Limited(@, mtu, size)]>>
  /\ threads = [th \in Threads |-> Idle]
  /\ observed = NothingObserved
  /\ critic = <<>>

LimitsSpec == LimitsInit /\ [][TransportNext]_vars

\* No datagram longer than the mtu is being transmitted: the outgoing
\* message has given no byte to the socket.
MtuOnSend(tr) ==
  \A i \in DOMAIN tr.current_outgoing_message_ :
    tr.current_outgoing_message_[i].bytes_sent > 0 =>
      tr.current_outgoing_message_[i].payload_size <= tr.config_.mtu

\* No datagram longer than the mtu is in the inbound queue.
MtuOnReceive(tr) ==
  \A i \in DOMAIN tr.inbound_buffers_ :
    tr.inbound_buffers_[i].payload_size <= tr.config_.mtu

InboundBounded(tr) ==
  Len(tr.inbound_buffers_) <= tr.config_.max_inbound_queue_size

OutboundBounded(tr) ==
  Len(tr.outbound_buffers_) <= tr.config_.max_outbound_queue_size

\* C38: no datagram whose payload is longer than config.mtu is transmitted
\* or placed in the inbound queue, and the inbound and outbound queues hold
\* no more than max_inbound_queue_size and max_outbound_queue_size
\* datagrams.
SizeLimits ==
  \A t \in Alive :
    /\ MtuOnSend(transports[t])
    /\ MtuOnReceive(transports[t])
    /\ InboundBounded(transports[t])
    /\ OutboundBounded(transports[t])

\* What does hold: the limits stay as the caller set them; no member
\* function reads them.
LimitsKept ==
  [][\A t \in DOMAIN transports :
       /\ transports'[t].config_.mtu = transports[t].config_.mtu
       /\ transports'[t].config_.max_inbound_queue_size
            = transports[t].config_.max_inbound_queue_size
       /\ transports'[t].config_.max_outbound_queue_size
            = transports[t].config_.max_outbound_queue_size]_vars

====
